---- MODULE Spec2Model ----
(***************************************************************************)
(* A model of redac_core.services.redaction.RedactionService and of        *)
(* redac_core.services.document_handler.DocumentHandler.                   *)
(*                                                                         *)
(* Texts, labels and replacement fragments are sequences of one-character  *)
(* strings, so that lengths, offsets and splices are those of the Python   *)
(* code.  An entity is a record [text, label, start, end] as delivered by  *)
(* the detection collaborator (openmed.PIIEntity); entity.text is the      *)
(* detector's own copy of the matched text.                                *)
(***************************************************************************)
EXTENDS Integers, Sequences, FiniteSets, TLC

\* --------------------------------------------------------------- bounds
\* Longest text redacted by the span redactor.
MaxLen == 3
\* Longest entity list handed to the span redactor.
MaxEnts == 2

\* ------------------------------------------------------------ universes
Methods == {"mask", "remove", "replace", "hash", "shift_dates"}

\* The characters texts are made of: the text of length n is the first n
\* characters of "John Doe" (repeated).  The redactor addresses characters
\* by position only, so a text whose characters tell positions apart is the
\* general case.
SampleChars == <<"J", "o", "h", "n", " ", "D", "o", "e">>

TextOfLen(n) == [k \in 1..n |-> SampleChars[((k - 1) % Len(SampleChars)) + 1]]

\* What the detector reports for the j-th entity of a list besides its
\* offsets: its own copy of the text and its label.
SampleTexts == << <<"J", "o", "h", "n">>, <<"D", "o", "e">>, <<"a">>, <<"b">> >>

SampleLabels == << <<"n", "a", "m", "e">>, <<"i", "d">>, <<"z", "i", "p">>, <<"a", "g", "e">> >>

KindText(j) == SampleTexts[((j - 1) % Len(SampleTexts)) + 1]

KindLabel(j) == SampleLabels[((j - 1) % Len(SampleLabels)) + 1]

\* Offsets a detector may report over a text of length n, stale and
\* malformed ones included: negative, past the end, start after end.
Offsets(n) == (0 - 1)..(n + 1)

\* The entity lists of length k over a text of length n: the j-th entity
\* carries the j-th text and label and any pair of offsets.
EntityLists(n, k) ==
    { [j \in 1..k |-> [text |-> KindText(j), label |-> KindLabel(j),
                       start |-> se[j][1], end |-> se[j][2]]] :
        se \in [1..k -> Offsets(n) \X Offsets(n)] }

\* ------------------------------------------------------------ variables
VARIABLES
    text,             \* _redact_manual: the text argument
    entities,         \* _redact_manual: the entities argument
    method,           \* _redact_manual: the method argument
    pc,               \* _redact_manual: "start", "loop" or "done"
    sorted_entities,  \* _redact_manual: the sorted copy of entities
    chars,            \* _redact_manual: the working buffer
    next_idx,         \* _redact_manual: index of the next entity of the for loop
    result,           \* _redact_manual: the returned string
    request,          \* redact_text: the last call's arguments [text, config]
    response,         \* redact_text: what the last call returned, or that it raised
    path,             \* redact_text: the strategy the last call took
    extract_calls,    \* redact_text: extract_pii invocations of the last call
    deidentify_calls, \* redact_text: deidentify invocations of the last call
    replaced,         \* redact_text: slices the last call's _redact_manual replaced
    issued,           \* every [text, label, token] a "hash" redaction has spliced in
    batch,            \* redact_batch: the arguments [texts, ids, config]
    bpc,              \* redact_batch: "start", "loop", "returned" or "raised"
    ids,              \* redact_batch: the ids the loop uses
    results,          \* redact_batch: the local results
    failed,           \* redact_batch: the local failed
    total_entities,   \* redact_batch: the local total_entities
    item_raised,      \* for each item handled so far, whether redact_text raised on it
    item_calls,       \* for each item handled so far, the collaborator invocations of its redact_text
    batch_result,     \* redact_batch: the returned BatchRedactionResult
    filter_call,      \* _filter_entities: the arguments [entities, include_types, exclude_types]
    filtered,         \* _filter_entities: the local filtered
    fpc,              \* _filter_entities: "start", "included" or "returned"
    doc_call,         \* create_redacted_document: the arguments
    file_type,        \* create_redacted_document: the local file_type
    dpc,              \* create_redacted_document: the statement reached
    doc,              \* _create_redacted_pdf: the pages of the opened document
    page_idx,         \* _create_redacted_pdf: the page the loop is at, from 1
    committed,        \* _create_redacted_pdf: the pages apply_redactions ran on, in order
    doc_raised,       \* create_redacted_document: the statements that raised, in order
    doc_result,       \* create_redacted_document: the returned (bytes, filename)
    default_model,    \* Settings.default_model
    active_model_name,\* RedactionService.active_model_name
    model_request,    \* the last request to an endpoint: which, and the model it names
    model_reply,      \* the answer to it: the status, and the model_name the collaborator got
    accepted_model    \* the model_id of the last set-active-model request answered "updated"

manualVars == <<text, entities, method, pc, sorted_entities, chars, next_idx, result>>

textVars == <<request, response, path, extract_calls, deidentify_calls, replaced, issued>>

batchVars == <<batch, bpc, ids, results, failed, total_entities, item_raised, item_calls, batch_result>>

filterVars == <<filter_call, filtered, fpc>>

docVars == <<doc_call, file_type, dpc, doc, page_idx, committed, doc_raised, doc_result>>

modelVars == <<default_model, active_model_name, model_request, model_reply, accepted_model>>

vars == <<manualVars, textVars, batchVars, filterVars, docVars, modelVars>>

\* ------------------------------------------------- hashlib.md5()[:8]
HexDigits == {"0", "1", "2", "3", "4", "5", "6", "7", "8", "9", "a", "b", "c", "d", "e", "f"}

\* hashlib.md5(t.encode("utf-8")).hexdigest() for the strings the model hashes.
Md5Hex(t) ==
    CASE t = <<"J", "o", "h", "n">> ->
            <<"6","1","4","0","9","a","a","1","f","d","4","7","d","4","a","5",
              "3","3","2","d","e","2","3","c","b","f","5","9","a","3","6","f">>
      [] t = <<"D", "o", "e">> ->
            <<"a","d","6","9","5","f","5","3","a","e","7","5","6","9","f","b",
              "9","8","1","f","c","9","5","5","9","8","e","2","7","e","6","7">>
      [] t = <<"a">> ->
            <<"0","c","c","1","7","5","b","9","c","0","f","1","b","6","a","8",
              "3","1","c","3","9","9","e","2","6","9","7","7","2","6","6","1">>
      [] t = <<"b">> ->
            <<"9","2","e","b","5","f","f","e","e","6","a","e","2","f","e","c",
              "3","a","d","7","1","c","7","7","7","5","3","1","5","7","8","f">>
      [] t = <<"n", "a", "m", "e">> ->
            <<"b","0","6","8","9","3","1","c","c","4","5","0","4","4","2","b",
              "6","3","f","5","b","3","d","2","7","6","e","a","4","2","9","7">>
      [] t = <<"i", "d">> ->
            <<"b","8","0","b","b","7","7","4","0","2","8","8","f","d","a","1",
              "f","2","0","1","8","9","0","3","7","5","a","6","0","c","8","f">>
      [] t = <<"z", "i", "p">> ->
            <<"a","d","c","d","b","d","7","9","a","8","d","8","4","1","7","5",
              "c","2","2","9","b","1","9","2","a","a","d","c","0","2","f","2">>
      [] t = <<"a", "g", "e">> ->
            <<"7","d","6","3","7","d","2","7","5","6","6","8","e","d","6","d",
              "4","1","a","9","b","9","7","e","6","a","d","3","a","5","5","6">>

\* Python's s[:k].
Take(s, k) == SubSeq(s, 1, IF k < Len(s) THEN k ELSE Len(s))

\* --------------------------------------------- _generate_replacement
\* As GenerateReplacement, hashing entity.label for entity.text.
GenerateReplacementOfLabel(entity, m) ==
    IF m = "mask" THEN <<"[">> \o entity.label \o <<"]">>
    ELSE IF m = "remove" THEN <<>>
    ELSE IF m = "hash" THEN Take(Md5Hex(entity.label), 8)
    ELSE <<"[">> \o entity.label \o <<"]">>

\* As GenerateReplacement, with a synthetic value for "replace" and the
\* entity's own text kept for "shift_dates".
GenerateReplacementSynthetic(entity, m) ==
    IF m = "mask" THEN <<"[">> \o entity.label \o <<"]">>
    ELSE IF m = "remove" THEN <<>>
    ELSE IF m = "hash" THEN Take(Md5Hex(entity.text), 8)
    ELSE IF m = "replace" THEN <<"J", "a", "n", "e">>
    ELSE entity.text

GenerateReplacement(entity, m) ==
    IF m = "mask" THEN <<"[">> \o entity.label \o <<"]">>
    ELSE IF m = "remove" THEN <<>>
    ELSE IF m = "hash" THEN Take(Md5Hex(entity.text), 8)
    ELSE IF m = "replace" THEN <<"[">> \o entity.label \o <<"]">>
    ELSE <<"[">> \o entity.label \o <<"]">>

\* --------------------------------------------------- _redact_manual
\* sorted(entities, key=lambda x: x.start, reverse=True): a stable sort by
\* start descending; entities with equal start keep their input order.
RECURSIVE InsertByStartDesc(_, _)
InsertByStartDesc(e, s) ==
    IF s = <<>> THEN <<e>>
    ELSE IF Head(s).start >= e.start THEN <<Head(s)>> \o InsertByStartDesc(e, Tail(s))
    ELSE <<e>> \o s

RECURSIVE SortedByStartDesc(_)
SortedByStartDesc(ents) ==
    IF ents = <<>> THEN <<>>
    ELSE InsertByStartDesc(ents[Len(ents)], SortedByStartDesc(SubSeq(ents, 1, Len(ents) - 1)))

\* The safety check of the loop: the entity is passed over.
OutOfRange(entity, t) == entity.start < 0 \/ entity.end > Len(t)

\* A slice bound as Python's list slicing reads it on a list of length n:
\* a negative bound counts from the end, and every bound is clamped to 0..n.
SliceBound(b, n) ==
    LET fromEnd == IF b < 0 THEN b + n ELSE b
    IN  IF fromEnd < 0 THEN 0 ELSE IF fromEnd > n THEN n ELSE fromEnd

\* As ReplaceSlice, taking entity.end as the last character of the span.
ReplaceSliceInclusive(buf, start, end, replacement) ==
    LET lo == SliceBound(start, Len(buf))
        hi0 == SliceBound(end + 1, Len(buf))
        hi == IF hi0 < lo THEN lo ELSE hi0
    IN  SubSeq(buf, 1, lo) \o replacement \o SubSeq(buf, hi + 1, Len(buf))

\* chars[start:end] = list(replacement): when the slice is empty or its
\* bounds are reversed, the replacement is inserted at the start bound.
ReplaceSlice(buf, start, end, replacement) ==
    LET lo == SliceBound(start, Len(buf))
        hi0 == SliceBound(end, Len(buf))
        hi == IF hi0 < lo THEN lo ELSE hi0
    IN  SubSeq(buf, 1, lo) \o replacement \o SubSeq(buf, hi + 1, Len(buf))

\* One pass of the for loop body over `entity`.
RedactOne(buf, entity, m, t) ==
    IF OutOfRange(entity, t) THEN buf
    ELSE ReplaceSlice(buf, entity.start, entity.end, GenerateReplacement(entity, m))

RECURSIVE RedactLoop(_, _, _, _)
RedactLoop(buf, ents, m, t) ==
    IF ents = <<>> THEN buf
    ELSE RedactLoop(RedactOne(buf, Head(ents), m, t), Tail(ents), m, t)

\* _redact_manual as a function of its arguments.
RedactManual(t, ents, m) == RedactLoop(t, SortedByStartDesc(ents), m, t)

\* ------------------------------------------------ states of rest
\* No _redact_manual call is being followed.
ManualIdle ==
    /\ text = <<>>
    /\ entities = <<>>
    /\ method = "mask"
    /\ pc = "idle"
    /\ sorted_entities = <<>>
    /\ chars = <<>>
    /\ next_idx = 0
    /\ result = <<>>

\* No redact_text call has been made.
TextIdle ==
    /\ request = [status |-> "none"]
    /\ response = [status |-> "none"]
    /\ path = "none"
    /\ extract_calls = 0
    /\ deidentify_calls = 0
    /\ replaced = 0
    /\ issued = {}

\* No redact_batch call is being followed.
BatchIdle ==
    /\ batch = [status |-> "none"]
    /\ bpc = "idle"
    /\ ids = <<>>
    /\ results = <<>>
    /\ failed = 0
    /\ total_entities = 0
    /\ item_raised = <<>>
    /\ item_calls = <<>>
    /\ batch_result = [status |-> "none"]

\* No _filter_entities call is being followed.
FilterIdle ==
    /\ filter_call = [status |-> "none"]
    /\ filtered = <<>>
    /\ fpc = "idle"

\* No create_redacted_document call is being followed.
DocIdle ==
    /\ doc_call = [status |-> "none"]
    /\ file_type = <<>>
    /\ dpc = "idle"
    /\ doc = <<>>
    /\ page_idx = 0
    /\ committed = <<>>
    /\ doc_raised = <<>>
    /\ doc_result = [status |-> "none"]

\* Settings.default_model as shipped, which is also the default of
\* RedactionConfig.model.
SchemaDefaultModel == "openmed/OpenMed-PII-ClinicalE5-Small-33M-v1"

\* RedactionService.__init__ under the shipped settings; no request has come.
ModelIdle ==
    /\ default_model = SchemaDefaultModel
    /\ active_model_name = default_model
    /\ model_request = [kind |-> "none"]
    /\ model_reply = [status |-> "none"]
    /\ accepted_model = default_model

\* --------------------------------- the span redactor, statement by statement
InitManual ==
    /\ \E n \in 0..MaxLen :
         /\ text = TextOfLen(n)
         /\ \E k \in 0..MaxEnts : entities \in EntityLists(n, k)
    /\ method \in Methods
    /\ pc = "start"
    /\ sorted_entities = <<>>
    /\ chars = <<>>
    /\ next_idx = 0
    /\ result = <<>>
    /\ TextIdle
    /\ BatchIdle
    /\ FilterIdle
    /\ DocIdle
    /\ ModelIdle

\* sorted_entities = sorted(...); chars = list(text)
SortEntities ==
    /\ pc = "start"
    /\ sorted_entities' = SortedByStartDesc(entities)
    /\ chars' = text
    /\ next_idx' = 1
    /\ pc' = "loop"
    /\ UNCHANGED <<text, entities, method, result>>
    /\ UNCHANGED <<textVars, batchVars, filterVars, docVars, modelVars>>

\* the loop body when the safety check fires: continue
SkipEntity ==
    /\ pc = "loop"
    /\ next_idx <= Len(sorted_entities)
    /\ OutOfRange(sorted_entities[next_idx], text)
    /\ next_idx' = next_idx + 1
    /\ UNCHANGED <<text, entities, method, pc, sorted_entities, chars, result>>
    /\ UNCHANGED <<textVars, batchVars, filterVars, docVars, modelVars>>

\* the loop body otherwise: the slice is replaced
ReplaceEntity ==
    /\ pc = "loop"
    /\ next_idx <= Len(sorted_entities)
    /\ ~OutOfRange(sorted_entities[next_idx], text)
    /\ chars' = RedactOne(chars, sorted_entities[next_idx], method, text)
    /\ next_idx' = next_idx + 1
    /\ UNCHANGED <<text, entities, method, pc, sorted_entities, result>>
    /\ UNCHANGED <<textVars, batchVars, filterVars, docVars, modelVars>>

\* sep.join(s)
RECURSIVE Join(_, _)
Join(sep, s) ==
    IF s = <<>> THEN <<>>
    ELSE IF Len(s) = 1 THEN s
    ELSE <<Head(s)>> \o sep \o Join(sep, Tail(s))

\* As ReturnRedacted, with " ".join(chars).
ReturnRedactedSpaced ==
    /\ pc = "loop"
    /\ next_idx > Len(sorted_entities)
    /\ result' = Join(<<" ">>, chars)
    /\ pc' = "done"
    /\ UNCHANGED <<text, entities, method, sorted_entities, chars, next_idx>>
    /\ UNCHANGED <<textVars, batchVars, filterVars, docVars, modelVars>>

\* return "".join(chars)
ReturnRedacted ==
    /\ pc = "loop"
    /\ next_idx > Len(sorted_entities)
    /\ result' = Join(<<>>, chars)
    /\ pc' = "done"
    /\ UNCHANGED <<text, entities, method, sorted_entities, chars, next_idx>>
    /\ UNCHANGED <<textVars, batchVars, filterVars, docVars, modelVars>>

NextManual == SortEntities \/ SkipEntity \/ ReplaceEntity \/ ReturnRedacted

Spec == InitManual /\ [][NextManual]_vars

\* ------------------------------------------------ C1..C4: the span redactor
\* 0 <= start <= end <= len(text) for every entity of the list.
InBounds(ents, t) ==
    \A j \in 1..Len(ents) : 0 <= ents[j].start /\ ents[j].start <= ents[j].end /\ ents[j].end <= Len(t)

\* No character of the text lies in two entities of the list.
NonOverlapping(ents) ==
    \A i, j \in 1..Len(ents) :
        i < j =>
            LET lo == IF ents[i].start > ents[j].start THEN ents[i].start ELSE ents[j].start
                hi == IF ents[i].end < ents[j].end THEN ents[i].end ELSE ents[j].end
            IN  ~(lo < hi)

RECURSIVE SpanTotal(_)
SpanTotal(ents) ==
    IF ents = <<>> THEN 0 ELSE (Head(ents).end - Head(ents).start) + SpanTotal(Tail(ents))

\* C1: with method "remove" and pairwise non-overlapping, in-bounds entities,
\* the returned text is shorter than the input by exactly the summed span
\* lengths.
C1_RemoveLength ==
    (pc = "done" /\ method = "remove" /\ InBounds(entities, text) /\ NonOverlapping(entities))
        => Len(result) = Len(text) - SpanTotal(entities)

\* Two non-empty spans, given left one first, have been removed.
C1_Witness ==
    /\ pc = "done" /\ method = "remove"
    /\ InBounds(entities, text) /\ NonOverlapping(entities)
    /\ Len(entities) = 2
    /\ entities[1].start < entities[1].end
    /\ entities[2].start < entities[2].end
    /\ entities[1].start < entities[2].start
    /\ Len(result) = Len(text) - 2

\* Every entity ends where or before another begins, and no two entities
\* cover the same span: the list has one left-to-right order.
Separated(ents) ==
    \A i, j \in 1..Len(ents) :
        i < j =>
            /\ ents[i].end <= ents[j].start \/ ents[j].end <= ents[i].start
            /\ ~(ents[i].start = ents[j].start /\ ents[i].end = ents[j].end)

RECURSIVE InsertLeftToRight(_, _)
InsertLeftToRight(e, s) ==
    IF s = <<>> THEN <<e>>
    ELSE IF Head(s).start < e.start \/ (Head(s).start = e.start /\ Head(s).end <= e.end)
         THEN <<Head(s)>> \o InsertLeftToRight(e, Tail(s))
         ELSE <<e>> \o s

RECURSIVE LeftToRight(_)
LeftToRight(ents) ==
    IF ents = <<>> THEN <<>> ELSE InsertLeftToRight(Head(ents), LeftToRight(Tail(ents)))

\* The text with each span, taken left to right from position `from`,
\* replaced by "[" + label + "]" and everything else kept.
RECURSIVE MaskedFrom(_, _, _)
MaskedFrom(t, from, ents) ==
    IF ents = <<>> THEN SubSeq(t, from + 1, Len(t))
    ELSE SubSeq(t, from + 1, Head(ents).start)
            \o <<"[">> \o Head(ents).label \o <<"]">>
            \o MaskedFrom(t, Head(ents).end, Tail(ents))

\* C2: with method "mask" and pairwise non-overlapping, in-bounds entities
\* given in any order, the returned text is the input with each span replaced
\* by "[" + label + "]" and every other character kept in order.
C2_MaskSplices ==
    (pc = "done" /\ method = "mask" /\ InBounds(entities, text) /\ Separated(entities))
        => result = MaskedFrom(text, 0, LeftToRight(entities))

\* C3: with an empty entity list the returned text is the input, for each of
\* the five methods.
C3_EmptyListIsNoOp ==
    (pc = "done" /\ entities = <<>>) => result = text

\* A non-empty text has been returned for an empty entity list.
C3_Witness ==
    pc = "done" /\ entities = <<>> /\ Len(text) >= 2 /\ method = "hash" /\ result = text

\* The list without its j-th entity.
WithoutEntity(ents, j) == SubSeq(ents, 1, j - 1) \o SubSeq(ents, j + 1, Len(ents))

\* C4: an entity with start < 0 or end > len(text) is passed over; the
\* output is the one obtained without it.
C4_OutOfRangeSkipped ==
    pc = "done" =>
        \A j \in 1..Len(entities) :
            (entities[j].start < 0 \/ entities[j].end > Len(text))
                => result = RedactManual(text, WithoutEntity(entities, j), method)

\* C4: as above, and an entity with start > len(text) never alters the
\* output either.
C4_StartPastEndSkipped ==
    pc = "done" =>
        \A j \in 1..Len(entities) :
            (entities[j].start < 0 \/ entities[j].end > Len(text) \/ entities[j].start > Len(text))
                => result = RedactManual(text, WithoutEntity(entities, j), method)

\* ---------------------------------------- C19, C20: the order of processing
\* C19: while pairwise non-overlapping, in-bounds entities are redacted, the
\* working buffer still begins with the original text's characters [0, end)
\* of the entity that is about to be processed.
C19_PrefixIntact ==
    (pc = "loop" /\ next_idx <= Len(sorted_entities)
        /\ InBounds(entities, text) /\ Separated(entities))
        => LET e == sorted_entities[next_idx]
           IN  /\ Len(chars) >= e.end
               /\ SubSeq(chars, 1, e.end) = SubSeq(text, 1, e.end)

\* C19, for lists in which no entity is empty.
C19_PrefixIntactNonEmpty ==
    (\A j \in 1..Len(entities) : entities[j].start < entities[j].end)
        => C19_PrefixIntact

\* C20: the entities are processed by start descending and, among entities
\* with the same start, larger end first.
C20_OrderStartDescEndDesc ==
    pc = "loop" =>
        \A i, j \in 1..Len(sorted_entities) :
            i < j =>
                \/ sorted_entities[i].start > sorted_entities[j].start
                \/ /\ sorted_entities[i].start = sorted_entities[j].start
                   /\ sorted_entities[i].end >= sorted_entities[j].end

\* C20, without the tie-break: the entities are processed by start descending.
C20_OrderStartDesc ==
    pc = "loop" =>
        \A i, j \in 1..Len(sorted_entities) :
            i < j => sorted_entities[i].start >= sorted_entities[j].start

\* ====================================================== redact_text
\* Longest entity list the detection collaborator returns to redact_text.
MaxDetected == 2
\* Longest text redact_text is called with (TextRedactionRequest.text has
\* min_length=1: the shortest has one character).
MaxText == 1

\* An optional list of labels (config.entity_types, exclude_entity_types):
\* None, or a list.
NoLabels == [given |-> FALSE, labels |-> <<>>]

SomeLabels(l) == [given |-> TRUE, labels |-> l]

\* An optional string (EntityInfo.redacted_text): None, or a string.
NoString == [given |-> FALSE, value |-> <<>>]

SomeString(v) == [given |-> TRUE, value |-> v]

\* An optional dict (RedactionResult.mapping): None, or a set of pairs.
NoMapping == [given |-> FALSE, pairs |-> {}]

SomeMapping(m) == [given |-> TRUE, pairs |-> m]

\* str.lower() on the letters of the model's labels.
UpperLetters == <<"A", "D", "E", "G", "I", "M", "N", "P", "Z">>

LowerLetters == <<"a", "d", "e", "g", "i", "m", "n", "p", "z">>

LowerChar(c) ==
    IF \E k \in 1..Len(UpperLetters) : UpperLetters[k] = c
    THEN LowerLetters[CHOOSE k \in 1..Len(UpperLetters) : UpperLetters[k] = c]
    ELSE c

Lower(str) == [k \in 1..Len(str) |-> LowerChar(str[k])]

\* set(t.lower() for t in types)
LowerSet(types) == { Lower(types[k]) : k \in 1..Len(types) }

\* `if types:` on an optional list: neither None nor empty.
Truthy(types) == types.given /\ types.labels # <<>>

\* As FilterEntities, comparing the labels as they are written.
FilterEntitiesCaseSensitive(ents, include_types, exclude_types) ==
    LET asSet(types) == { types[k] : k \in 1..Len(types) }
        included ==
            IF Truthy(include_types)
            THEN SelectSeq(ents, LAMBDA e : e.label \in asSet(include_types.labels))
            ELSE ents
    IN  IF Truthy(exclude_types)
        THEN SelectSeq(included, LAMBDA e : e.label \notin asSet(exclude_types.labels))
        ELSE included

\* _filter_entities
FilterEntities(ents, include_types, exclude_types) ==
    LET included ==
            IF Truthy(include_types)
            THEN SelectSeq(ents, LAMBDA e : Lower(e.label) \in LowerSet(include_types.labels))
            ELSE ents
    IN  IF Truthy(exclude_types)
        THEN SelectSeq(included, LAMBDA e : Lower(e.label) \notin LowerSet(exclude_types.labels))
        ELSE included

\* _entity_to_info
EntityToInfo(entity, redacted_text) ==
    [text |-> entity.text, label |-> entity.label, start |-> entity.start,
     end |-> entity.end, redacted_text |-> redacted_text]

\* filtering_needed
FilteringNeeded(config) ==
    config.entity_types.given \/ config.exclude_entity_types.given

\* As UsesManualPath, with `if config.entity_types or config.exclude_entity_types`
\* for the two `is not None` tests.
UsesManualPathTruthy(config) ==
    Truthy(config.entity_types) \/ Truthy(config.exclude_entity_types)
        \/ config.method # "replace"

\* The condition of redact_text's if: strategy 1, extract + manual redaction.
UsesManualPath(config) == FilteringNeeded(config) \/ config.method # "replace"

\* The entities of a list on which _redact_manual's loop replaces a slice.
ReplacedEntities(t, ents) == SelectSeq(ents, LAMBDA e : ~OutOfRange(e, t))

\* redact_text, strategy 1, given what extract_pii returned.
ManualResult(t, config, detected) ==
    LET filtered_entities ==
            FilterEntities(detected, config.entity_types, config.exclude_entity_types)
        final_entities ==
            [j \in 1..Len(filtered_entities) |-> EntityToInfo(filtered_entities[j], NoString)]
    IN  [status |-> "ok",
         original_text |-> t,
         redacted_text |-> RedactManual(t, filtered_entities, config.method),
         entities |-> final_entities,
         entity_count |-> Len(final_entities),
         mapping |-> NoMapping,
         method |-> config.method]

\* As DelegatedResult, with the mapping passed on whenever deidentify
\* returned one.
DelegatedResultAnyMapping(t, config, deid) ==
    LET ents == [j \in 1..Len(deid.pii_entities) |->
                    EntityToInfo(deid.pii_entities[j], deid.pii_entities[j].redacted_text)]
    IN  [status |-> "ok",
         original_text |-> t,
         redacted_text |-> deid.deidentified_text,
         entities |-> ents,
         entity_count |-> Len(ents),
         mapping |-> IF deid.mapping.given /\ deid.mapping.pairs # {}
                     THEN SomeMapping(deid.mapping.pairs)
                     ELSE NoMapping,
         method |-> config.method]

\* redact_text, strategy 2, given what deidentify returned.
DelegatedResult(t, config, deid) ==
    LET ents == [j \in 1..Len(deid.pii_entities) |->
                    EntityToInfo(deid.pii_entities[j], deid.pii_entities[j].redacted_text)]
        mapping ==
            IF config.include_mapping /\ deid.mapping.given /\ deid.mapping.pairs # {}
            THEN SomeMapping(deid.mapping.pairs)
            ELSE NoMapping
    IN  [status |-> "ok",
         original_text |-> t,
         redacted_text |-> deid.deidentified_text,
         entities |-> ents,
         entity_count |-> Len(ents),
         mapping |-> mapping,
         method |-> config.method]

\* As ExtractResult, with each entity's replacement fragment filled in.
ExtractResultWithFragments(config, detected) ==
    LET kept == FilterEntities(detected, config.entity_types, config.exclude_entity_types)
    IN  [j \in 1..Len(kept) |->
            EntityToInfo(kept[j], SomeString(GenerateReplacement(kept[j], config.method)))]

\* extract_entities, given what extract_pii returned.
ExtractResult(config, detected) ==
    LET kept == FilterEntities(detected, config.entity_types, config.exclude_entity_types)
    IN  [j \in 1..Len(kept) |-> EntityToInfo(kept[j], NoString)]

\* ------------------------------------------- what redact_text is called with
\* config.date_shift_days: None, or a number of days.
NoDays == [given |-> FALSE, value |-> 0]

SomeDays(n) == [given |-> TRUE, value |-> n]

\* The configs of a request; date_shift_days is set with method shift_dates
\* only, the one method under which redact_text looks at it.
Configs ==
    { c \in [method : Methods,
             date_shift_days : {NoDays, SomeDays(30)},
             entity_types : {NoLabels, SomeLabels(<<>>), SomeLabels(<< <<"N", "A", "M", "E">> >>)},
             exclude_entity_types : {NoLabels, SomeLabels(<< <<"i", "d">> >>)},
             include_mapping : BOOLEAN] :
        c.date_shift_days.given => c.method = "shift_dates" }

\* What the detector may report over a text of length n: one text under two
\* labels and another text, each over the first character, empty after it,
\* or running past the end.
DetectedSpans(n) == {<<0, 1>>, <<1, 1>>, <<0, n + 1>>}

DetectedKinds == {<<1, 1>>, <<1, 2>>, <<2, 2>>}

DetectedEntities(n) ==
    { [text |-> SampleTexts[k[1]], label |-> SampleLabels[k[2]],
       start |-> se[1], end |-> se[2]] :
        k \in DetectedKinds, se \in DetectedSpans(n) }

DetectedLists(n) ==
    UNION { [1..k -> DetectedEntities(n)] : k \in 0..MaxDetected }

\* What deidentify may return: a synthetic text, the entities with their
\* replacements, and no mapping, an empty one or a filled one.
SyntheticText == <<"J", "a", "n", "e">>

DeidentifyResults(n) ==
    [deidentified_text : {SyntheticText},
     pii_entities : { <<>>,
                      <<[text |-> SampleTexts[1], label |-> SampleLabels[1], start |-> 0,
                         end |-> n, redacted_text |-> SomeString(SyntheticText)]>> },
     mapping : {NoMapping, SomeMapping({}), SomeMapping({<<SampleTexts[1], SyntheticText>>})}]

\* As CollaboratorCalls, with extract_pii invoked on both paths.
CollaboratorCallsExtractsFirst(config) ==
    [extract_pii |-> 1, deidentify |-> IF UsesManualPath(config) THEN 0 ELSE 1]

\* The collaborator invocations of one redact_text call: extract_pii in the
\* first branch of the `if`, deidentify in the other, reached or raising.
CollaboratorCalls(config) ==
    IF UsesManualPath(config)
    THEN [extract_pii |-> 1, deidentify |-> 0]
    ELSE [extract_pii |-> 0, deidentify |-> 1]

\* ------------------------------------------------- redact_text, call by call
InitText ==
    /\ ManualIdle
    /\ TextIdle
    /\ BatchIdle
    /\ FilterIdle
    /\ DocIdle
    /\ ModelIdle

\* A call on the manual path; extract_pii returns `detected`.
RedactTextManual ==
    \E n \in 1..MaxText, config \in Configs :
        /\ response.status = "none"
        /\ UsesManualPath(config)
        /\ \E detected \in DetectedLists(n) :
            LET filtered_entities == FilterEntities(detected, config.entity_types,
                                                    config.exclude_entity_types)
                done == ReplacedEntities(TextOfLen(n), filtered_entities)
            IN  /\ request' = [status |-> "called", text |-> TextOfLen(n), config |-> config,
                               detected |-> detected]
                /\ response' = ManualResult(TextOfLen(n), config, detected)
                /\ replaced' = Len(done)
                /\ issued' =
                     IF config.method = "hash"
                     THEN issued \cup { [text |-> done[j].text, label |-> done[j].label,
                                          token |-> GenerateReplacement(done[j], "hash")] :
                                            j \in 1..Len(done) }
                     ELSE issued
        /\ path' = "manual"
        /\ extract_calls' = CollaboratorCalls(config).extract_pii
        /\ deidentify_calls' = CollaboratorCalls(config).deidentify
        /\ UNCHANGED <<manualVars, batchVars, filterVars, docVars, modelVars>>

\* A call on the manual path; extract_pii raises, and so does redact_text.
RedactTextManualRaises ==
    \E n \in 1..MaxText, config \in Configs :
        /\ response.status = "none"
        /\ UsesManualPath(config)
        /\ request' = [status |-> "called", text |-> TextOfLen(n), config |-> config,
                       detected |-> <<>>]
        /\ response' = [status |-> "raised"]
        /\ path' = "manual"
        /\ extract_calls' = CollaboratorCalls(config).extract_pii
        /\ deidentify_calls' = CollaboratorCalls(config).deidentify
        /\ replaced' = 0
        /\ UNCHANGED <<issued, manualVars, batchVars, filterVars, docVars, modelVars>>

\* A call on the delegated path; deidentify returns `deid`.
RedactTextDelegated ==
    \E n \in 1..MaxText, config \in Configs :
        /\ response.status = "none"
        /\ ~UsesManualPath(config)
        /\ \E deid \in DeidentifyResults(n) :
            /\ request' = [status |-> "called", text |-> TextOfLen(n), config |-> config,
                           detected |-> <<>>, deidentified |-> deid]
            /\ response' = DelegatedResult(TextOfLen(n), config, deid)
        /\ path' = "delegated"
        /\ extract_calls' = CollaboratorCalls(config).extract_pii
        /\ deidentify_calls' = CollaboratorCalls(config).deidentify
        /\ replaced' = 0
        /\ UNCHANGED <<issued, manualVars, batchVars, filterVars, docVars, modelVars>>

\* A call on the delegated path; deidentify raises, and so does redact_text.
RedactTextDelegatedRaises ==
    \E n \in 1..MaxText, config \in Configs :
        /\ response.status = "none"
        /\ ~UsesManualPath(config)
        /\ request' = [status |-> "called", text |-> TextOfLen(n), config |-> config,
                       detected |-> <<>>]
        /\ response' = [status |-> "raised"]
        /\ path' = "delegated"
        /\ extract_calls' = CollaboratorCalls(config).extract_pii
        /\ deidentify_calls' = CollaboratorCalls(config).deidentify
        /\ replaced' = 0
        /\ UNCHANGED <<issued, manualVars, batchVars, filterVars, docVars, modelVars>>

\* The caller takes the result (or the exception); the service is ready for
\* the next call.  Nothing of the call stays behind in the service.
CallerResumes ==
    /\ response.status # "none"
    /\ request' = [status |-> "none"]
    /\ response' = [status |-> "none"]
    /\ path' = "none"
    /\ extract_calls' = 0
    /\ deidentify_calls' = 0
    /\ replaced' = 0
    /\ UNCHANGED <<issued, manualVars, batchVars, filterVars, docVars, modelVars>>

NextText ==
    \/ RedactTextManual
    \/ RedactTextManualRaises
    \/ RedactTextDelegated
    \/ RedactTextDelegatedRaises
    \/ CallerResumes

SpecText == InitText /\ [][NextText]_vars

\* --------------------------------------------- extract_entities, call by call
\* A call of extract_entities; extract_pii returns `detected`.
ExtractEntities ==
    \E n \in 1..MaxText, config \in Configs :
        /\ response.status = "none"
        /\ \E detected \in DetectedLists(n) :
            /\ request' = [status |-> "called", text |-> TextOfLen(n), config |-> config,
                           detected |-> detected]
            /\ response' = [status |-> "entities", entities |-> ExtractResult(config, detected)]
        /\ path' = "extract"
        /\ extract_calls' = 1
        /\ deidentify_calls' = 0
        /\ replaced' = 0
        /\ UNCHANGED <<issued, manualVars, batchVars, filterVars, docVars, modelVars>>

\* A call of extract_entities; extract_pii raises, and so does extract_entities.
ExtractEntitiesRaises ==
    \E n \in 1..MaxText, config \in Configs :
        /\ response.status = "none"
        /\ request' = [status |-> "called", text |-> TextOfLen(n), config |-> config,
                       detected |-> <<>>]
        /\ response' = [status |-> "raised"]
        /\ path' = "extract"
        /\ extract_calls' = 1
        /\ deidentify_calls' = 0
        /\ replaced' = 0
        /\ UNCHANGED <<issued, manualVars, batchVars, filterVars, docVars, modelVars>>

NextExtract == ExtractEntities \/ ExtractEntitiesRaises \/ CallerResumes

SpecExtract == InitText /\ [][NextExtract]_vars

C6_PathSelection ==
    request.status = "called" =>
        LET c == request.config
            manual == c.entity_types.given \/ c.exclude_entity_types.given
                        \/ c.method # "replace"
        IN  /\ path \in {"manual", "delegated"}
            /\ (path = "manual") <=> manual
            /\ (path = "delegated") <=> (~c.entity_types.given /\ ~c.exclude_entity_types.given
                                            /\ c.method = "replace")
            /\ extract_calls = (IF path = "manual" THEN 1 ELSE 0)
            /\ deidentify_calls = (IF path = "delegated" THEN 1 ELSE 0)

\* Method "replace" with an empty include list went down the manual path.
C6_Witness ==
    /\ request.status = "called"
    /\ request.config.method = "replace"
    /\ request.config.entity_types = SomeLabels(<<>>)
    /\ ~request.config.exclude_entity_types.given
    /\ path = "manual"
    /\ response.status = "ok"

\* C7: on the manual path every returned entity is a span that was replaced,
\* and entity_count is the number of replacements performed.
C7_EntitiesAreReplaced ==
    (path = "manual" /\ response.status = "ok") =>
        /\ response.entity_count = replaced
        /\ \A j \in 1..Len(response.entities) :
                ~(response.entities[j].start < 0
                    \/ response.entities[j].end > Len(request.text))

\* ====================================================== redact_batch
\* Longest list of texts handed to redact_batch.
MaxItems == 2

\* An optional list of ids: None, or a list.
NoIds == [given |-> FALSE, list |-> <<>>]

SomeIds(l) == [given |-> TRUE, list |-> l]

\* [f"item_{i}" for i in range(n)]
DefaultIds(n) == [k \in 1..n |-> <<"item", k - 1>>]

\* The result appended for an item on which redact_text raised.
FallbackResult(t, config) ==
    [status |-> "ok",
     original_text |-> t,
     redacted_text |-> t,
     entities |-> <<>>,
     entity_count |-> 0,
     mapping |-> NoMapping,
     method |-> config.method]

\* As BatchRedactionResultOf, with successful_items=len(results).
BatchRedactionResultAllSuccessful(texts, res, nfailed, nentities) ==
    [status |-> "ok",
     results |-> res,
     total_items |-> Len(texts),
     successful_items |-> Len(res),
     failed_items |-> nfailed,
     total_entities |-> nentities]

\* The BatchRedactionResult built by the return statement.
BatchRedactionResultOf(texts, res, nfailed, nentities) ==
    [status |-> "ok",
     results |-> res,
     total_items |-> Len(texts),
     successful_items |-> Len(texts) - nfailed,
     failed_items |-> nfailed,
     total_entities |-> nentities]

\* ------------------------------------------ what redact_batch is called with
BatchTexts == UNION { [1..k -> {TextOfLen(n) : n \in 0..(MaxText + 1)}] : k \in 0..MaxItems }

\* The caller's ids: absent, or a list of any length, shorter and longer than
\* the list of texts included.
BatchIds == {NoIds} \cup { SomeIds([k \in 1..n |-> <<"doc", k>>]) : n \in 0..(MaxItems + 1) }

BatchConfigs ==
    [method : {"mask", "replace"},
     entity_types : {NoLabels},
     exclude_entity_types : {NoLabels},
     include_mapping : BOOLEAN]

\* What extract_pii may report for an item of length n: nothing, an entity in
\* range, or that entity and one past the end.
BatchDetections(n) ==
    LET inside == [text |-> SampleTexts[1], label |-> SampleLabels[1], start |-> 0, end |-> n]
        beyond == [text |-> SampleTexts[2], label |-> SampleLabels[2], start |-> 0, end |-> n + 1]
    IN  {<<>>, <<inside>>, <<inside, beyond>>}

\* What redact_text may return for text t under config, over everything the
\* collaborator it calls may return.
RedactTextResults(t, config) ==
    IF UsesManualPath(config)
    THEN { ManualResult(t, config, detected) : detected \in BatchDetections(Len(t)) }
    ELSE { DelegatedResult(t, config, deid) : deid \in DeidentifyResults(Len(t)) }

\* ------------------------------------------- redact_batch, item by item
InitBatch ==
    /\ ManualIdle
    /\ TextIdle
    /\ FilterIdle
    /\ DocIdle
    /\ ModelIdle
    /\ batch \in [status : {"called"}, texts : BatchTexts, ids : BatchIds, config : BatchConfigs]
    /\ bpc = "start"
    /\ ids = <<>>
    /\ results = <<>>
    /\ failed = 0
    /\ total_entities = 0
    /\ item_raised = <<>>
    /\ item_calls = <<>>
    /\ batch_result = [status |-> "none"]

\* if ids is None: ids = [...]; results = []; failed = 0; total_entities = 0
BatchBegin ==
    /\ bpc = "start"
    /\ ids' = IF batch.ids.given THEN batch.ids.list ELSE DefaultIds(Len(batch.texts))
    /\ results' = <<>>
    /\ failed' = 0
    /\ total_entities' = 0
    /\ bpc' = "loop"
    /\ UNCHANGED <<batch, item_raised, item_calls, batch_result, manualVars, textVars, filterVars, docVars, modelVars>>

\* As ItemRedacted, with total_entities = result.entity_count in place of +=.
ItemRedactedOverwrites ==
    /\ bpc = "loop"
    /\ Len(results) < Len(batch.texts)
    /\ \E r \in RedactTextResults(batch.texts[Len(results) + 1], batch.config) :
        /\ results' = Append(results, r)
        /\ total_entities' = r.entity_count
    /\ item_raised' = Append(item_raised, FALSE)
    /\ item_calls' = Append(item_calls, CollaboratorCalls(batch.config))
    /\ UNCHANGED <<batch, bpc, ids, failed, batch_result, manualVars, textVars, filterVars, docVars, modelVars>>

\* One pass of the loop in which redact_text returns.
ItemRedacted ==
    /\ bpc = "loop"
    /\ Len(results) < Len(batch.texts)
    /\ \E r \in RedactTextResults(batch.texts[Len(results) + 1], batch.config) :
        /\ results' = Append(results, r)
        /\ total_entities' = total_entities + r.entity_count
    /\ item_raised' = Append(item_raised, FALSE)
    /\ item_calls' = Append(item_calls, CollaboratorCalls(batch.config))
    /\ UNCHANGED <<batch, bpc, ids, failed, batch_result, manualVars, textVars, filterVars, docVars, modelVars>>

\* As ItemFailed, with the fallback result put in place of the last result.
ItemFailedReplacesLast ==
    /\ bpc = "loop"
    /\ Len(results) < Len(batch.texts)
    /\ Len(results) + 1 <= Len(ids)
    /\ failed' = failed + 1
    /\ results' = IF results = <<>>
                  THEN <<FallbackResult(batch.texts[1], batch.config)>>
                  ELSE Append([results EXCEPT ![Len(results)] =
                                    FallbackResult(batch.texts[Len(results)], batch.config)],
                              FallbackResult(batch.texts[Len(results) + 1], batch.config))
    /\ item_raised' = Append(item_raised, TRUE)
    /\ item_calls' = Append(item_calls, CollaboratorCalls(batch.config))
    /\ UNCHANGED <<batch, bpc, ids, total_entities, batch_result, manualVars, textVars, filterVars, docVars, modelVars>>

\* One pass of the loop in which redact_text raises: the handler logs ids[i],
\* counts the failure and appends the fallback result.
ItemFailed ==
    /\ bpc = "loop"
    /\ Len(results) < Len(batch.texts)
    /\ Len(results) + 1 <= Len(ids)
    /\ failed' = failed + 1
    /\ results' = Append(results, FallbackResult(batch.texts[Len(results) + 1], batch.config))
    /\ item_raised' = Append(item_raised, TRUE)
    /\ item_calls' = Append(item_calls, CollaboratorCalls(batch.config))
    /\ UNCHANGED <<batch, bpc, ids, total_entities, batch_result, manualVars, textVars, filterVars, docVars, modelVars>>

\* One pass of the loop in which redact_text raises and ids has no entry for
\* the item: ids[i] raises IndexError inside the handler, which leaves
\* redact_batch.
ItemFailedNoId ==
    /\ bpc = "loop"
    /\ Len(results) < Len(batch.texts)
    /\ Len(results) + 1 > Len(ids)
    /\ item_raised' = Append(item_raised, TRUE)
    /\ item_calls' = Append(item_calls, CollaboratorCalls(batch.config))
    /\ bpc' = "raised"
    /\ UNCHANGED <<batch, ids, results, failed, total_entities, batch_result, manualVars, textVars, filterVars, docVars, modelVars>>

\* return BatchRedactionResult(...)
BatchReturn ==
    /\ bpc = "loop"
    /\ Len(results) = Len(batch.texts)
    /\ batch_result' = BatchRedactionResultOf(batch.texts, results, failed, total_entities)
    /\ bpc' = "returned"
    /\ UNCHANGED <<batch, ids, results, failed, total_entities, item_raised, item_calls, manualVars, textVars, filterVars, docVars, modelVars>>

NextBatch == BatchBegin \/ ItemRedacted \/ ItemFailed \/ ItemFailedNoId \/ BatchReturn

SpecBatch == InitBatch /\ [][NextBatch]_vars

\* ------------------------------------------------ C8..C10: redact_batch
\* The items handled so far on which redact_text raised.
RaisedItems == { i \in 1..Len(item_raised) : item_raised[i] }

\* C8: when redact_text fails on item i, the result stored for it is the
\* original text with no entities, the item is counted in failed_items and
\* every later item is still processed.
C8_FailureIsolated ==
    \A i \in RaisedItems :
        /\ bpc # "raised"
        /\ Len(results) >= i
        /\ results[i].original_text = batch.texts[i]
        /\ results[i].redacted_text = batch.texts[i]
        /\ results[i].entities = <<>>
        /\ results[i].entity_count = 0
        /\ failed = Cardinality(RaisedItems)
        /\ bpc = "returned" =>
                /\ Len(batch_result.results) = Len(batch.texts)
                /\ batch_result.results[i] = results[i]
                /\ batch_result.failed_items = Cardinality(RaisedItems)

\* C8, for the calls in which ids has an entry for every text.
C8_FailureIsolatedWithIds ==
    (bpc # "start" /\ Len(ids) >= Len(batch.texts)) => C8_FailureIsolated

\* C9: redact_batch never raises; it returns one result per text.
C9_NeverAborts ==
    /\ bpc # "raised"
    /\ bpc = "returned" => Len(batch_result.results) = Len(batch.texts)

\* C10: in every returned BatchRedactionResult total_items = len(texts) =
\* len(results), failed_items is the number of items on which redact_text
\* raised, successful_items = total_items - failed_items, and results[i] is
\* the result of texts[i].
C10_BatchCounts ==
    bpc = "returned" =>
        /\ batch_result.total_items = Len(batch.texts)
        /\ Len(batch_result.results) = Len(batch.texts)
        /\ batch_result.failed_items = Cardinality(RaisedItems)
        /\ batch_result.successful_items = batch_result.total_items - batch_result.failed_items
        /\ \A i \in 1..Len(batch.texts) :
                batch_result.results[i].original_text = batch.texts[i]

\* A batch of two different texts has returned; redact_text raised on the
\* second only.
C10_Witness ==
    /\ bpc = "returned"
    /\ Len(batch.texts) = 2
    /\ batch.texts[1] # batch.texts[2]
    /\ item_raised = <<FALSE, TRUE>>
    /\ batch_result.successful_items = 1
    /\ batch_result.failed_items = 1
    /\ batch_result.results[2].redacted_text = batch.texts[2]

\* ------------------------------------------------------ C11: redact_batch
\* The sum of entity_count over a list of results.
RECURSIVE SumEntityCount(_)
SumEntityCount(res) ==
    IF res = <<>> THEN 0
    ELSE res[1].entity_count + SumEntityCount(Tail(res))

\* C11: in every returned BatchRedactionResult total_entities is the sum of
\* entity_count over its results, and the result of an item on which
\* redact_text raised counts 0 entities.
C11_TotalEntitiesIsSum ==
    bpc = "returned" =>
        /\ batch_result.total_entities = SumEntityCount(batch_result.results)
        /\ \A i \in RaisedItems : batch_result.results[i].entity_count = 0

\* A batch of two items has returned in which both items had entities.
C11_Witness ==
    /\ bpc = "returned"
    /\ Len(batch_result.results) = 2
    /\ batch_result.results[1].entity_count > 0
    /\ batch_result.results[2].entity_count > 0
    /\ batch_result.total_entities
            = batch_result.results[1].entity_count + batch_result.results[2].entity_count

\* ====================================================== _filter_entities
\* Longest entity list handed to _filter_entities.
MaxFiltered == 3

\* The labels of the entities handed to the filter: two types, each written
\* in two ways.
FilterLabels ==
    { <<"n", "a", "m", "e">>, <<"N", "a", "m", "e">>, <<"i", "d">>, <<"I", "D">> }

\* The lists of k entities: the j-th covers character j of the text.
FilterEntityLists(k) ==
    { [j \in 1..k |-> [text |-> KindText(j), label |-> l[j], start |-> j - 1, end |-> j]] :
        l \in [1..k -> FilterLabels] }

\* config.entity_types: None, an empty list, one type, both types.
IncludeTypes ==
    { NoLabels, SomeLabels(<<>>), SomeLabels(<< <<"N", "A", "M", "E">> >>),
      SomeLabels(<< <<"n", "a", "m", "e">>, <<"i", "d">> >>) }

\* config.exclude_entity_types: None, an empty list, one type or the other.
ExcludeTypes ==
    { NoLabels, SomeLabels(<<>>), SomeLabels(<< <<"I", "d">> >>),
      SomeLabels(<< <<"n", "a", "m", "e">> >>) }

InitFilter ==
    /\ ManualIdle
    /\ TextIdle
    /\ BatchIdle
    /\ DocIdle
    /\ ModelIdle
    /\ \E k \in 0..MaxFiltered :
         filter_call \in [status : {"called"}, entities : FilterEntityLists(k),
                          include_types : IncludeTypes, exclude_types : ExcludeTypes]
    /\ filtered = <<>>
    /\ fpc = "start"

\* filtered = entities; if include_types: filtered = [e for e in filtered if ...]
FilterInclude ==
    /\ fpc = "start"
    /\ filtered' = FilterEntities(filter_call.entities, filter_call.include_types, NoLabels)
    /\ fpc' = "included"
    /\ UNCHANGED <<filter_call, manualVars, textVars, batchVars, docVars, modelVars>>

\* if exclude_types: filtered = [e for e in filtered if ...]; return filtered
FilterExclude ==
    /\ fpc = "included"
    /\ filtered' = FilterEntities(filtered, NoLabels, filter_call.exclude_types)
    /\ fpc' = "returned"
    /\ UNCHANGED <<filter_call, manualVars, textVars, batchVars, docVars, modelVars>>

NextFilter == FilterInclude \/ FilterExclude

SpecFilter == InitFilter /\ [][NextFilter]_vars

\* ------------------------------------------------ C17: _filter_entities
\* Two labels that differ in the case of their letters at most.
SameIgnoringCase(a, b) ==
    Len(a) = Len(b) /\ \A k \in 1..Len(a) : LowerChar(a[k]) = LowerChar(b[k])

\* The label is one of the optional list, whatever the case.
LabelIn(label, types) ==
    \E k \in 1..Len(types.labels) : SameIgnoringCase(label, types.labels[k])

\* The positions of the input the claim keeps: in the include list when that
\* list is non-empty, and not in the exclude list.
KeptPositions(call) ==
    { j \in 1..Len(call.entities) :
        /\ Len(call.include_types.labels) > 0
                => LabelIn(call.entities[j].label, call.include_types)
        /\ ~LabelIn(call.entities[j].label, call.exclude_types) }

\* The returned list is the input restricted to KeptPositions, in input order.
ReturnsKept ==
    fpc = "returned" =>
        LET K == KeptPositions(filter_call)
        IN  /\ Len(filtered) = Cardinality(K)
            /\ \A j \in K :
                    filtered[Cardinality({k \in K : k < j}) + 1] = filter_call.entities[j]

\* C17: _filter_entities returns exactly the entities of its input, in input
\* order, whose label is (case-insensitively) in the include list when that
\* list is non-empty and not in the exclude list, a label in both being
\* dropped; the input list is never modified.
C17_FilterIsSubsequence ==
    []ReturnsKept /\ [][filter_call' = filter_call]_vars

\* Three entities were filtered with a label that is in both lists under
\* another case: the entities of that label are dropped, the other is kept.
C17_Witness ==
    /\ fpc = "returned"
    /\ Len(filter_call.entities) = 3
    /\ filter_call.include_types = SomeLabels(<< <<"n", "a", "m", "e">>, <<"i", "d">> >>)
    /\ filter_call.exclude_types = SomeLabels(<< <<"I", "d">> >>)
    /\ filter_call.entities[1].label = <<"I", "D">>
    /\ filter_call.entities[2].label = <<"N", "a", "m", "e">>
    /\ filter_call.entities[3].label = <<"i", "d">>
    /\ filtered = <<filter_call.entities[2]>>

\* ------------------------------------------------ C18: extract_entities
\* C18: extract_entities returns the detector's entities that pass the
\* filter, one EntityInfo each and in order, with no replacement fragment;
\* the list is the same under each of the five methods; deidentify is not
\* called and no slice of the text is replaced.
C18_ExtractIsFilteredDetection ==
    response.status = "entities" =>
        LET kept == FilterEntities(request.detected, request.config.entity_types,
                                   request.config.exclude_entity_types)
        IN  /\ Len(response.entities) = Len(kept)
            /\ \A j \in 1..Len(kept) :
                    /\ response.entities[j].text = kept[j].text
                    /\ response.entities[j].label = kept[j].label
                    /\ response.entities[j].start = kept[j].start
                    /\ response.entities[j].end = kept[j].end
                    /\ ~response.entities[j].redacted_text.given
            /\ \A m \in Methods :
                    response.entities
                        = ExtractResult([request.config EXCEPT !.method = m], request.detected)
            /\ extract_calls = 1
            /\ deidentify_calls = 0
            /\ replaced = 0

\* extract_entities was called with method "hash" and an exclude list; of the
\* two detected entities the one that passes the filter is returned, with no
\* fragment.
C18_Witness ==
    /\ response.status = "entities"
    /\ request.config.method = "hash"
    /\ request.config.exclude_entity_types.given
    /\ Len(request.detected) = 2
    /\ request.detected[1].label = SampleLabels[2]
    /\ request.detected[2].label = SampleLabels[1]
    /\ Len(response.entities) = 1
    /\ response.entities[1].label = SampleLabels[1]
    /\ response.entities[1].redacted_text = NoString

\* ====================================================== create_redacted_document
\* Longest entity list handed to create_redacted_document.
MaxDocEnts == 2
\* Most pages of an original PDF.
MaxPages == 2

\* ------------------------------------------------------------ file names
\* str.rfind("."): the last position of a dot, from 1; 0 when there is none.
LastDot(name) ==
    LET dots == { i \in 1..Len(name) : name[i] = "." }
    IN  IF dots = {} THEN 0 ELSE CHOOSE i \in dots : \A k \in dots : k <= i

\* Path(filename).suffix: from the last dot on, unless the name begins or
\* ends with that dot.
Suffix(name) ==
    LET i == LastDot(name)
    IN  IF 1 < i /\ i < Len(name) THEN SubSeq(name, i, Len(name)) ELSE <<>>

\* Path(filename).stem: the name without its suffix.
Stem(name) == SubSeq(name, 1, Len(name) - Len(Suffix(name)))

\* ext.lstrip(".")
RECURSIVE LStripDots(_)
LStripDots(str) ==
    IF str # <<>> /\ Head(str) = "." THEN LStripDots(Tail(str)) ELSE str

\* get_file_type
GetFileType(filename) ==
    LET ext == Lower(Suffix(filename))
    IN  IF ext \in {<<".", "d", "o", "c">>, <<".", "d", "o", "c", "x">>}
        THEN <<"d", "o", "c", "x">>
        ELSE LStripDots(ext)

\* As OverridesFileType, without the test against "same".
OverridesFileTypeAlsoSame(output_format) ==
    output_format.given /\ output_format.value # <<>>

\* `if output_format and output_format != "same"`
OverridesFileType(output_format) ==
    output_format.given /\ output_format.value # <<>> /\ output_format.value # <<"s", "a", "m", "e">>

\* f"{stem}_redacted{ext}"
RedactedName(stem, ext) == stem \o <<"_", "r", "e", "d", "a", "c", "t", "e", "d">> \o ext

\* ------------------------------------------------------------ file contents
\* The bytes of a PDF, by its pages: what each page shows, the redaction
\* annotations staged on it and the redactions applied to it.
PdfBytes(pages) == [format |-> "pdf", pages |-> pages, paragraphs |-> <<>>, text |-> <<>>]

\* The bytes of a DOCX package, by its paragraphs.
DocxBytes(paragraphs) ==
    [format |-> "docx", pages |-> <<>>, paragraphs |-> paragraphs, text |-> <<>>]

\* str.encode("utf-8"): the bytes of a text.
Utf8(str) == [format |-> "utf-8", pages |-> <<>>, paragraphs |-> <<>>, text |-> str]

\* A page of an unredacted PDF.
PageOf(str) == [text |-> str, annots |-> <<>>, redactions |-> <<>>]

\* The characters str.strip() removes.
Whitespace == {" ", "\n", "\t"}

\* `if not str or not str.strip()`
Blank(str) == \A k \in 1..Len(str) : str[k] \in Whitespace

\* page.search_for(needle): the places of the page's text where needle
\* stands, in reading order.
SearchFor(page_text, needle) ==
    LET n == Len(needle)
        at == { i \in 1..(Len(page_text) - n + 1) : SubSeq(page_text, i, i + n - 1) = needle }
        RECURSIVE Ascending(_)
        Ascending(S) ==
            IF S = {} THEN <<>>
            ELSE LET lo == CHOOSE i \in S : \A k \in S : i <= k
                 IN  <<[from |-> lo - 1, to |-> lo - 1 + n]>> \o Ascending(S \ {lo})
    IN  Ascending(at)

\* As FillColor, with the default colour under every method.
FillColorAlwaysBlack(m) == <<0, 0, 0>>

\* fill_color, in tenths: black, white for "remove", light grey for
\* "replace" and "hash".
FillColor(m) ==
    IF m = "remove" THEN <<10, 10, 10>>
    ELSE IF m \in {"replace", "hash"} THEN <<9, 9, 9>>
    ELSE <<0, 0, 0>>

\* text_color, in tenths: None, dark grey for "replace" and "hash".
TextColor(m) ==
    IF m \in {"replace", "hash"} THEN [given |-> TRUE, value |-> <<3, 3, 3>>]
    ELSE [given |-> FALSE, value |-> <<>>]

\* annot_text
AnnotText(entity, m) ==
    IF m = "replace" THEN SomeString(<<"[">> \o entity.label \o <<"]">>)
    ELSE IF m = "hash" THEN SomeString(Take(Md5Hex(entity.text), 8))
    ELSE NoString

\* The redaction annotations the inner loops add to a page, in the order of
\* the add_redact_annot calls.
RECURSIVE PageAnnots(_, _, _)
PageAnnots(page_text, ents, m) ==
    IF ents = <<>> THEN <<>>
    ELSE LET entity == Head(ents)
             hits == IF Blank(entity.text) THEN <<>> ELSE SearchFor(page_text, entity.text)
         IN  [j \in 1..Len(hits) |->
                 [rect |-> hits[j], fill |-> FillColor(m), text |-> AnnotText(entity, m),
                  text_color |-> TextColor(m)]]
             \o PageAnnots(page_text, Tail(ents), m)

\* str.split(sep)
RECURSIVE Split(_, _)
Split(str, sep) ==
    LET n == Len(sep)
        at == { i \in 1..(Len(str) - n + 1) : SubSeq(str, i, i + n - 1) = sep }
    IN  IF at = {} THEN <<str>>
        ELSE LET first == CHOOSE i \in at : \A k \in at : i <= k
             IN  <<SubSeq(str, 1, first - 1)>> \o Split(SubSeq(str, first + n, Len(str)), sep)

\* As DocxParagraphs, with every segment added as a paragraph.
DocxParagraphsWithBlanks(redacted_text) == Split(redacted_text, <<"\n", "\n">>)

\* The paragraphs _create_redacted_docx adds to the new document.
DocxParagraphs(redacted_text) ==
    SelectSeq(Split(redacted_text, <<"\n", "\n">>), LAMBDA para : ~Blank(para))

\* --------------------------- what create_redacted_document is called with
\* The names of the original file: the supported extensions, two of them
\* with a capital, and names the callers' is_supported turns away.
DocFilenames ==
    { <<"a", ".", "p", "d", "f">>, <<"a", ".", "P", "d", "f">>, <<"a", ".", "d", "o", "c", "x">>, <<"a", ".", "D", "o", "c">>,
      <<"a", ".", "t", "x", "t">>, <<"a", ".", "m", "d">>, <<"a", ".", "j", "s", "o", "n">>, <<"a", ".", "x", "m", "l">>, <<"a">> }

\* output_format: None, "same", the empty string, the formats of the
\* dispatch, and one that the dispatch does not know.
OutputFormats ==
    { NoString, SomeString(<<"s", "a", "m", "e">>), SomeString(<<>>),
      SomeString(<<"t", "x", "t">>), SomeString(<<"j", "s", "o", "n">>), SomeString(<<"m", "d">>),
      SomeString(<<"p", "d", "f">>), SomeString(<<"d", "o", "c", "x">>), SomeString(<<"P", "D", "F">>) }

\* The entities argument: None, or a list.
NoEntities == [given |-> FALSE, list |-> <<>>]

SomeEntities(l) == [given |-> TRUE, list |-> l]

\* Two entities whose texts stand on some pages, and one whose text is blank.
DocEntityKinds ==
    { [text |-> SampleTexts[3], label |-> SampleLabels[2], start |-> 0, end |-> 1,
       redacted_text |-> NoString],
      [text |-> SampleTexts[4], label |-> SampleLabels[1], start |-> 1, end |-> 2,
       redacted_text |-> NoString],
      [text |-> <<" ">>, label |-> SampleLabels[3], start |-> 1, end |-> 2,
       redacted_text |-> NoString] }

DocEntityArgs ==
    {NoEntities} \cup { SomeEntities(l) : l \in UNION { [1..k -> DocEntityKinds] : k \in 0..MaxDocEnts } }

\* redacted_text: one paragraph, two with a blank one between them, or an
\* empty segment before one paragraph of two lines.
RedactedTexts ==
    { <<"x">>, <<"x", "\n", "\n", " ", "\n", "\n", "y">>, <<"\n", "\n", "x", "\n", "y">> }

\* What a page of the original PDF shows: the text of the first entity kind
\* twice, or not at all.
PageTexts == { <<"a", "b", "a">>, <<"b">> }

PdfDocuments ==
    UNION { { PdfBytes([k \in 1..n |-> PageOf(t[k])]) : t \in [1..n -> PageTexts] } :
                n \in 1..MaxPages }

\* The bytes of the original file: what extract_text read the text from, a
\* PDF under a .pdf name, a DOCX package under .doc and .docx, text otherwise.
OriginalContents(filename) ==
    IF GetFileType(filename) = <<"p", "d", "f">> THEN PdfDocuments
    ELSE IF GetFileType(filename) = <<"d", "o", "c", "x">> THEN {DocxBytes(<<<<"a", "b">>>>)}
    ELSE {Utf8(<<"a", "b">>)}

\* --------------------- create_redacted_document, statement by statement
InitDoc ==
    /\ ManualIdle
    /\ TextIdle
    /\ BatchIdle
    /\ FilterIdle
    /\ ModelIdle
    /\ \E filename \in DocFilenames :
         doc_call \in [status : {"called"},
                       original_content : OriginalContents(filename),
                       filename : {filename},
                       redacted_text : RedactedTexts,
                       output_format : OutputFormats,
                       entities : DocEntityArgs,
                       method : Methods]
    /\ file_type = <<>>
    /\ dpc = "start"
    /\ doc = <<>>
    /\ page_idx = 0
    /\ committed = <<>>
    /\ doc_raised = <<>>
    /\ doc_result = [status |-> "none"]

\* `entities = entities or []`
EntitiesOf(call) == IF call.entities.given THEN call.entities.list ELSE <<>>

\* file_type = self.get_file_type(filename); if output_format and
\* output_format != "same": file_type = output_format
SelectFormat ==
    /\ dpc = "start"
    /\ file_type' = IF OverridesFileType(doc_call.output_format)
                    THEN doc_call.output_format.value
                    ELSE GetFileType(doc_call.filename)
    /\ dpc' = "dispatch"
    /\ UNCHANGED <<doc_call, doc, page_idx, committed, doc_raised, doc_result>>
    /\ UNCHANGED <<manualVars, textVars, batchVars, filterVars, modelVars>>

\* The txt, md, json and default branches of the dispatch.
EmitText ==
    /\ dpc = "dispatch"
    /\ file_type \notin {<<"p", "d", "f">>, <<"d", "o", "c", "x">>}
    /\ doc_result' =
         [status |-> "returned",
          content |-> Utf8(doc_call.redacted_text),
          filename |-> RedactedName(Stem(doc_call.filename),
                            IF file_type = <<"m", "d">> THEN <<".", "m", "d">>
                            ELSE IF file_type = <<"j", "s", "o", "n">> THEN <<".", "j", "s", "o", "n">>
                            ELSE <<".", "t", "x", "t">>)]
    /\ dpc' = "returned"
    /\ UNCHANGED <<doc_call, file_type, doc, page_idx, committed, doc_raised>>
    /\ UNCHANGED <<manualVars, textVars, batchVars, filterVars, modelVars>>

\* As PdfNoEntities, returning the redacted text laid out on a new page.
PdfNoEntitiesReconstructs ==
    /\ dpc = "dispatch"
    /\ file_type = <<"p", "d", "f">>
    /\ EntitiesOf(doc_call) = <<>>
    /\ doc_result' =
         [status |-> "returned",
          content |-> PdfBytes(<<PageOf(doc_call.redacted_text)>>),
          filename |-> RedactedName(Stem(doc_call.filename), <<".", "p", "d", "f">>)]
    /\ dpc' = "returned"
    /\ UNCHANGED <<doc_call, file_type, doc, page_idx, committed, doc_raised>>
    /\ UNCHANGED <<manualVars, textVars, batchVars, filterVars, modelVars>>

\* _create_redacted_pdf: `if not entities: return original_content, ...`
PdfNoEntities ==
    /\ dpc = "dispatch"
    /\ file_type = <<"p", "d", "f">>
    /\ EntitiesOf(doc_call) = <<>>
    /\ doc_result' =
         [status |-> "returned",
          content |-> doc_call.original_content,
          filename |-> RedactedName(Stem(doc_call.filename), <<".", "p", "d", "f">>)]
    /\ dpc' = "returned"
    /\ UNCHANGED <<doc_call, file_type, doc, page_idx, committed, doc_raised>>
    /\ UNCHANGED <<manualVars, textVars, batchVars, filterVars, modelVars>>

\* doc = fitz.open(stream=original_content, filetype="pdf"), on the bytes of
\* a PDF.
PdfOpen ==
    /\ dpc = "dispatch"
    /\ file_type = <<"p", "d", "f">>
    /\ EntitiesOf(doc_call) # <<>>
    /\ doc_call.original_content.format = "pdf"
    /\ doc' = doc_call.original_content.pages
    /\ page_idx' = 1
    /\ dpc' = "stage"
    /\ UNCHANGED <<doc_call, file_type, committed, doc_raised, doc_result>>
    /\ UNCHANGED <<manualVars, textVars, batchVars, filterVars, modelVars>>

\* fitz.open raises: the bytes are no PDF, or a PDF it cannot read.
PdfOpenRaises ==
    /\ dpc = "dispatch"
    /\ file_type = <<"p", "d", "f">>
    /\ EntitiesOf(doc_call) # <<>>
    /\ doc_raised' = Append(doc_raised, "open")
    /\ dpc' = "except_pdf"
    /\ UNCHANGED <<doc_call, file_type, doc, page_idx, committed, doc_result>>
    /\ UNCHANGED <<manualVars, textVars, batchVars, filterVars, modelVars>>

\* `for entity in entities:` on one page: every hit of every entity text
\* that is not blank gets a redaction annotation.
StagePage ==
    /\ dpc = "stage"
    /\ doc' = [doc EXCEPT ![page_idx].annots =
                    PageAnnots(doc[page_idx].text, EntitiesOf(doc_call), doc_call.method)]
    /\ dpc' = "commit"
    /\ UNCHANGED <<doc_call, file_type, page_idx, committed, doc_raised, doc_result>>
    /\ UNCHANGED <<manualVars, textVars, batchVars, filterVars, modelVars>>

\* search_for or add_redact_annot raises on the j-th entity of the page: the
\* annotations of the entities before it are staged.
StagePageRaises ==
    /\ dpc = "stage"
    /\ \E j \in 1..Len(EntitiesOf(doc_call)) :
        /\ ~Blank(EntitiesOf(doc_call)[j].text)
        /\ doc' = [doc EXCEPT ![page_idx].annots =
                        PageAnnots(doc[page_idx].text, SubSeq(EntitiesOf(doc_call), 1, j - 1),
                                   doc_call.method)]
    /\ doc_raised' = Append(doc_raised, "mark")
    /\ dpc' = "except_pdf"
    /\ UNCHANGED <<doc_call, file_type, page_idx, committed, doc_result>>
    /\ UNCHANGED <<manualVars, textVars, batchVars, filterVars, modelVars>>

\* As CommitPage, with apply_redactions run only on a page that has staged
\* annotations.
CommitPageSkipsUnmarked ==
    /\ dpc = "commit"
    /\ doc' = [doc EXCEPT ![page_idx].redactions = doc[page_idx].annots,
                          ![page_idx].annots = <<>>]
    /\ committed' = IF doc[page_idx].annots = <<>> THEN committed
                    ELSE Append(committed, page_idx)
    /\ page_idx' = page_idx + 1
    /\ dpc' = IF page_idx < Len(doc) THEN "stage" ELSE "serialise"
    /\ UNCHANGED <<doc_call, file_type, doc_raised, doc_result>>
    /\ UNCHANGED <<manualVars, textVars, batchVars, filterVars, modelVars>>

\* page.apply_redactions(): the staged annotations become redactions of the
\* page; the loop goes to the next page.
CommitPage ==
    /\ dpc = "commit"
    /\ doc' = [doc EXCEPT ![page_idx].redactions = doc[page_idx].annots,
                          ![page_idx].annots = <<>>]
    /\ committed' = Append(committed, page_idx)
    /\ page_idx' = page_idx + 1
    /\ dpc' = IF page_idx < Len(doc) THEN "stage" ELSE "serialise"
    /\ UNCHANGED <<doc_call, file_type, doc_raised, doc_result>>
    /\ UNCHANGED <<manualVars, textVars, batchVars, filterVars, modelVars>>

\* page.apply_redactions() raises.
CommitPageRaises ==
    /\ dpc = "commit"
    /\ doc_raised' = Append(doc_raised, "commit")
    /\ dpc' = "except_pdf"
    /\ UNCHANGED <<doc_call, file_type, doc, page_idx, committed, doc_result>>
    /\ UNCHANGED <<manualVars, textVars, batchVars, filterVars, modelVars>>

\* output = doc.tobytes(); doc.close(); return output, f"{stem}_redacted.pdf"
PdfSerialise ==
    /\ dpc = "serialise"
    /\ doc_result' =
         [status |-> "returned",
          content |-> PdfBytes(doc),
          filename |-> RedactedName(Stem(doc_call.filename), <<".", "p", "d", "f">>)]
    /\ dpc' = "returned"
    /\ UNCHANGED <<doc_call, file_type, doc, page_idx, committed, doc_raised>>
    /\ UNCHANGED <<manualVars, textVars, batchVars, filterVars, modelVars>>

\* doc.tobytes() raises.
PdfSerialiseRaises ==
    /\ dpc = "serialise"
    /\ doc_raised' = Append(doc_raised, "tobytes")
    /\ dpc' = "except_pdf"
    /\ UNCHANGED <<doc_call, file_type, doc, page_idx, committed, doc_result>>
    /\ UNCHANGED <<manualVars, textVars, batchVars, filterVars, modelVars>>

\* As PdfExcept, with the exception raised again after it is logged.
PdfExceptReraises ==
    /\ dpc = "except_pdf"
    /\ dpc' = "raised"
    /\ UNCHANGED <<doc_call, file_type, doc, page_idx, committed, doc_raised, doc_result>>
    /\ UNCHANGED <<manualVars, textVars, batchVars, filterVars, modelVars>>

\* _create_redacted_pdf: `except Exception`, the text file in place of the PDF.
PdfExcept ==
    /\ dpc = "except_pdf"
    /\ doc_result' =
         [status |-> "returned",
          content |-> Utf8(doc_call.redacted_text),
          filename |-> RedactedName(Stem(doc_call.filename), <<".", "t", "x", "t">>)]
    /\ dpc' = "returned"
    /\ UNCHANGED <<doc_call, file_type, doc, page_idx, committed, doc_raised>>
    /\ UNCHANGED <<manualVars, textVars, batchVars, filterVars, modelVars>>

\* _create_redacted_docx: a new document of the redacted text's paragraphs.
DocxBuild ==
    /\ dpc = "dispatch"
    /\ file_type = <<"d", "o", "c", "x">>
    /\ doc_result' =
         [status |-> "returned",
          content |-> DocxBytes(DocxParagraphs(doc_call.redacted_text)),
          filename |-> RedactedName(Stem(doc_call.filename), <<".", "d", "o", "c", "x">>)]
    /\ dpc' = "returned"
    /\ UNCHANGED <<doc_call, file_type, doc, page_idx, committed, doc_raised>>
    /\ UNCHANGED <<manualVars, textVars, batchVars, filterVars, modelVars>>

\* Document(), add_paragraph or save raises.
DocxBuildRaises ==
    /\ dpc = "dispatch"
    /\ file_type = <<"d", "o", "c", "x">>
    /\ doc_raised' = Append(doc_raised, "docx")
    /\ dpc' = "except_docx"
    /\ UNCHANGED <<doc_call, file_type, doc, page_idx, committed, doc_result>>
    /\ UNCHANGED <<manualVars, textVars, batchVars, filterVars, modelVars>>

\* _create_redacted_docx: `except Exception`, the text file in place of the
\* DOCX.
DocxExcept ==
    /\ dpc = "except_docx"
    /\ doc_result' =
         [status |-> "returned",
          content |-> Utf8(doc_call.redacted_text),
          filename |-> RedactedName(Stem(doc_call.filename), <<".", "t", "x", "t">>)]
    /\ dpc' = "returned"
    /\ UNCHANGED <<doc_call, file_type, doc, page_idx, committed, doc_raised>>
    /\ UNCHANGED <<manualVars, textVars, batchVars, filterVars, modelVars>>

NextDoc ==
    \/ SelectFormat
    \/ EmitText
    \/ PdfNoEntities
    \/ PdfOpen
    \/ PdfOpenRaises
    \/ StagePage
    \/ StagePageRaises
    \/ CommitPage
    \/ CommitPageRaises
    \/ PdfSerialise
    \/ PdfSerialiseRaises
    \/ PdfExcept
    \/ DocxBuild
    \/ DocxBuildRaises
    \/ DocxExcept

SpecDoc == InitDoc /\ [][NextDoc]_vars

\* ------------------------------------- C12..C16: create_redacted_document
\* The statement named x has raised during the call.
Raised(x) == \E k \in 1..Len(doc_raised) : doc_raised[k] = x

C13_MarkingFailureReconstructs ==
    (dpc = "returned" /\ Raised("mark"))
        => \/ /\ doc_result.filename = Stem(doc_call.filename) \o <<"_", "r", "e", "d", "a", "c", "t", "e", "d", ".", "p", "d", "f">>
              /\ doc_result.content.format = "pdf"
              /\ Len(doc_result.content.pages) >= 1
           \/ /\ Raised("reconstruct")
              /\ doc_result.filename = Stem(doc_call.filename) \o <<"_", "r", "e", "d", "a", "c", "t", "e", "d", ".", "t", "x", "t">>
              /\ doc_result.content = Utf8(doc_call.redacted_text)

\* The statement the call is at can be executed, by the conditions of the
\* statements: the dispatch has a branch for every file type, the page loop
\* stands on a page of the opened document.
CanGoOn ==
    CASE dpc = "start" -> doc_call.status = "called"
      [] dpc = "dispatch" ->
            \/ file_type \notin {<<"p", "d", "f">>, <<"d", "o", "c", "x">>}
            \/ file_type = <<"p", "d", "f">> /\ EntitiesOf(doc_call) = <<>>
            \/ file_type = <<"p", "d", "f">> /\ EntitiesOf(doc_call) # <<>>
            \/ file_type = <<"d", "o", "c", "x">>
      [] dpc \in {"stage", "commit"} -> page_idx \in 1..Len(doc)
      [] dpc = "serialise" -> page_idx = Len(doc) + 1
      [] dpc \in {"except_pdf", "except_docx"} -> doc_raised # <<>>
      [] OTHER -> FALSE

\* C14: no failure of opening, marking, committing, serialising or building
\* leaves create_redacted_document: the call goes on until it returns a
\* (bytes, filename) pair, and after a failure the pair is the UTF-8 redacted
\* text named {stem}_redacted.txt.
C14_RenderFailureAbsorbed ==
    /\ dpc \in {"start", "dispatch", "stage", "commit", "serialise",
                "except_pdf", "except_docx", "returned"}
    /\ dpc # "returned" => CanGoOn
    /\ dpc = "returned" =>
        /\ doc_result.status = "returned"
        /\ doc_raised # <<>> =>
            /\ doc_result.content = Utf8(doc_call.redacted_text)
            /\ doc_result.filename = Stem(doc_call.filename) \o <<"_", "r", "e", "d", "a", "c", "t", "e", "d", ".", "t", "x", "t">>

\* The commit of the second page of a.pdf raised; the call returned the text
\* under a_redacted.txt.
C14_Witness ==
    /\ dpc = "returned"
    /\ doc_call.filename = <<"a", ".", "p", "d", "f">>
    /\ doc_raised = <<"commit">>
    /\ page_idx = 2
    /\ doc_result.content = Utf8(doc_call.redacted_text)
    /\ doc_result.filename = <<"a", "_", "r", "e", "d", "a", "c", "t", "e", "d", ".", "t", "x", "t">>

\* The suffixes create_redacted_document names its results with.
ResultSuffixes == { <<".", "p", "d", "f">>, <<".", "d", "o", "c", "x">>, <<".", "t", "x", "t">>, <<".", "m", "d">>, <<".", "j", "s", "o", "n">> }

\* C15: the returned name is {stem}_redacted{ext}, and ext names the format
\* of the returned bytes: .pdf PDF bytes, .docx a DOCX package, .txt, .md and
\* .json the UTF-8 redacted text.
C15_NameMatchesBytes ==
    dpc = "returned" =>
        \E ext \in ResultSuffixes :
            /\ doc_result.filename = Stem(doc_call.filename) \o <<"_", "r", "e", "d", "a", "c", "t", "e", "d">> \o ext
            /\ ext = <<".", "p", "d", "f">> => doc_result.content.format = "pdf"
            /\ ext = <<".", "d", "o", "c", "x">> => doc_result.content.format = "docx"
            /\ ext \in {<<".", "t", "x", "t">>, <<".", "m", "d">>, <<".", "j", "s", "o", "n">>}
                    => doc_result.content = Utf8(doc_call.redacted_text)

\* C15, for the output formats the endpoint and the command line pass: none,
\* "txt" and "json".
C15_NameMatchesBytesForCallers ==
    doc_call.output_format \in {NoString, SomeString(<<"t", "x", "t">>), SomeString(<<"j", "s", "o", "n">>)}
        => C15_NameMatchesBytes

\* The file type each name of DocFilenames has: its extension, lower-cased,
\* with .doc and .docx both docx.
ExtensionType(filename) ==
    CASE filename = <<"a", ".", "p", "d", "f">> -> <<"p", "d", "f">>
      [] filename = <<"a", ".", "P", "d", "f">> -> <<"p", "d", "f">>
      [] filename = <<"a", ".", "d", "o", "c", "x">> -> <<"d", "o", "c", "x">>
      [] filename = <<"a", ".", "D", "o", "c">> -> <<"d", "o", "c", "x">>
      [] filename = <<"a", ".", "t", "x", "t">> -> <<"t", "x", "t">>
      [] filename = <<"a", ".", "m", "d">> -> <<"m", "d">>
      [] filename = <<"a", ".", "j", "s", "o", "n">> -> <<"j", "s", "o", "n">>
      [] filename = <<"a", ".", "x", "m", "l">> -> <<"x", "m", "l">>
      [] filename = <<"a">> -> <<>>

\* An output format is given: neither absent (None or the empty string) nor
\* "same".
FormatGiven(output_format) ==
    output_format.given /\ output_format.value \notin {<<>>, <<"s", "a", "m", "e">>}

\* C16: the effective format is the forced output_format when one is given
\* (absent, the empty string included, and "same" give none), whatever the
\* file name, and otherwise the extension of the file name, lower-cased, with
\* .doc and .docx both docx; a format outside pdf, docx, txt, md and json is
\* emitted as the UTF-8 redacted text named {stem}_redacted.txt.
C16_EffectiveFormat ==
    dpc # "start" =>
        /\ file_type = IF FormatGiven(doc_call.output_format)
                       THEN doc_call.output_format.value
                       ELSE ExtensionType(doc_call.filename)
        /\ (dpc = "returned"
                /\ file_type \notin {<<"p", "d", "f">>, <<"d", "o", "c", "x">>, <<"t", "x", "t">>, <<"m", "d">>, <<"j", "s", "o", "n">>})
            => /\ doc_result.content = Utf8(doc_call.redacted_text)
               /\ doc_result.filename = Stem(doc_call.filename) \o <<"_", "r", "e", "d", "a", "c", "t", "e", "d", ".", "t", "x", "t">>

\* a.Pdf was redacted with output_format "docx": the effective format is
\* docx and a DOCX package named a_redacted.docx came back.
C16_Witness ==
    /\ dpc = "returned"
    /\ doc_call.filename = <<"a", ".", "P", "d", "f">>
    /\ doc_call.output_format = SomeString(<<"d", "o", "c", "x">>)
    /\ file_type = <<"d", "o", "c", "x">>
    /\ doc_result.content.format = "docx"
    /\ doc_result.filename = <<"a", "_", "r", "e", "d", "a", "c", "t", "e", "d", ".", "d", "o", "c", "x">>

MarksOfPage(p) ==
    { [page |-> p, mark |-> doc[p].annots[k]] : k \in 1..Len(doc[p].annots) }
        \cup { [page |-> p, mark |-> doc[p].redactions[k]] : k \in 1..Len(doc[p].redactions) }

AllMarks == UNION { MarksOfPage(p) : p \in 1..Len(doc) }

\* The entities of the call whose text stands under the mark.
EntitiesUnder(pm) ==
    { j \in 1..Len(EntitiesOf(doc_call)) :
        SubSeq(doc[pm.page].text, pm.mark.rect.from + 1, pm.mark.rect.to)
            = EntitiesOf(doc_call)[j].text }

\* C22: every mark is encoded by the method: "remove" a white fill without
\* overlay, "replace" a light-grey fill with "[" + label + "]", "hash" a
\* light-grey fill with the 8-character digest text-level hash redaction
\* gives the entity, every other method a black fill without overlay.
C22_MarkEncodedByMethod ==
    \A pm \in AllMarks :
        \E j \in EntitiesUnder(pm) :
            LET entity == EntitiesOf(doc_call)[j]
                m == doc_call.method
            IN  CASE m = "remove" ->
                        pm.mark.fill = <<10, 10, 10>> /\ ~pm.mark.text.given
                  [] m = "replace" ->
                        /\ pm.mark.fill = <<9, 9, 9>>
                        /\ pm.mark.text = SomeString(<<"[">> \o entity.label \o <<"]">>)
                  [] m = "hash" ->
                        /\ pm.mark.fill = <<9, 9, 9>>
                        /\ pm.mark.text = SomeString(GenerateReplacement(entity, "hash"))
                        /\ Len(pm.mark.text.value) = 8
                  [] OTHER ->
                        pm.mark.fill = <<0, 0, 0>> /\ ~pm.mark.text.given

\* Under method "hash" a light-grey mark carrying the digest of "a" is
\* staged on the first page.
C22_Witness ==
    /\ dpc = "commit"
    /\ doc_call.method = "hash"
    /\ page_idx = 1
    /\ Len(doc[1].annots) >= 1
    /\ doc[1].annots[1].fill = <<9, 9, 9>>
    /\ doc[1].annots[1].text = SomeString(<<"0", "c", "c", "1", "7", "5", "b", "9">>)

\* The pages whose marks are all staged: the pages committed, and the page
\* the loop is about to commit.
StagedPages ==
    { p \in 1..Len(doc) : p < page_idx \/ (p = page_idx /\ dpc = "commit") }

\* The marks of a staged page, in the order they were added.
MarksOn(p) == IF p < page_idx THEN doc[p].redactions ELSE doc[p].annots

\* The texts of the call's entities that are not blank.
MarkedTexts ==
    { EntitiesOf(doc_call)[j].text : j \in { i \in 1..Len(EntitiesOf(doc_call)) :
                                            ~Blank(EntitiesOf(doc_call)[i].text) } }

\* The places of page p where the text t stands.
Occurrences(p, t) ==
    { [from |-> i - 1, to |-> i - 1 + Len(t)] :
        i \in { k \in 1..(Len(doc[p].text) - Len(t) + 1) :
                  SubSeq(doc[p].text, k, k + Len(t) - 1) = t } }

\* The number of marks of page p over the place r.
MarksOver(p, r) == Cardinality({ k \in 1..Len(MarksOn(p)) : MarksOn(p)[k].rect = r })

\* C23: on every staged page every exact occurrence of every entity text
\* that is not blank carries exactly one mark, however many entities carry the
\* text, and nothing else is marked.
C23_OneMarkPerOccurrence ==
    \A p \in StagedPages :
        /\ \A t \in MarkedTexts : \A r \in Occurrences(p, t) : MarksOver(p, r) = 1
        /\ \A k \in 1..Len(MarksOn(p)) :
             \E t \in MarkedTexts : MarksOn(p)[k].rect \in Occurrences(p, t)

\* C23, without the count: every occurrence of every entity text that is not
\* blank is marked at least once, and nothing else is marked.
C23_EveryOccurrenceMarked ==
    \A p \in StagedPages :
        /\ \A t \in MarkedTexts : \A r \in Occurrences(p, t) : MarksOver(p, r) >= 1
        /\ \A k \in 1..Len(MarksOn(p)) :
             \E t \in MarkedTexts : MarksOn(p)[k].rect \in Occurrences(p, t)

\* C24: the pages are handled in ascending order, one at a time: the pages
\* committed are 1, 2, ... up to the page before the one the loop is at, each
\* once, with or without marks; a committed page carries as redactions every
\* mark of the page and no staged annotation; the page the loop is at has its
\* marks staged only; no page after it carries any mark.
C24_PagesInAscendingOrder ==
    /\ committed = [k \in 1..Len(committed) |-> k]
    /\ Len(committed) = IF page_idx = 0 THEN 0 ELSE page_idx - 1
    /\ \A p \in 1..Len(doc) :
        /\ p < page_idx =>
            /\ doc[p].annots = <<>>
            /\ doc[p].redactions
                 = PageAnnots(doc[p].text, EntitiesOf(doc_call), doc_call.method)
        /\ p = page_idx =>
            /\ doc[p].redactions = <<>>
            /\ dpc = "stage" => doc[p].annots = <<>>
            /\ dpc = "commit" =>
                 doc[p].annots = PageAnnots(doc[p].text, EntitiesOf(doc_call), doc_call.method)
        /\ p > page_idx => doc[p].annots = <<>> /\ doc[p].redactions = <<>>
    /\ dpc = "serialise" => Len(committed) = Len(doc)

\* Both pages of a two-page PDF are committed, the first with marks and the
\* second without any.
C24_Witness ==
    /\ dpc = "serialise"
    /\ committed = <<1, 2>>
    /\ doc[1].redactions # <<>>
    /\ doc[2].redactions = <<>>
    /\ doc[2].annots = <<>>

\* C25: when staging or committing has raised after pages were committed,
\* the returned bytes are a PDF whose pages carry the redactions applied to
\* the committed pages.
C25_CommittedPagesSurvive ==
    (dpc = "returned" /\ (Raised("mark") \/ Raised("commit")) /\ committed # <<>>)
        => /\ doc_result.content.format = "pdf"
           /\ \A k \in 1..Len(committed) :
                /\ committed[k] <= Len(doc_result.content.pages)
                /\ doc_result.content.pages[committed[k]].redactions
                     = doc[committed[k]].redactions

\* ------------------------------------------------------- C26: the DOCX branch
\* The segments between blank lines that hold a character other than
\* whitespace, for each text of RedactedTexts.
ExpectedParagraphs(redacted_text) ==
    CASE redacted_text = <<"x">> -> << <<"x">> >>
      [] redacted_text = <<"x", "\n", "\n", " ", "\n", "\n", "y">> -> << <<"x">>, <<"y">> >>
      [] redacted_text = <<"\n", "\n", "x", "\n", "y">> -> << <<"x", "\n", "y">> >>

\* C26: under the effective format docx the call builds a new document from
\* redacted_text alone, whatever the original bytes and the entities: no PDF
\* is opened or marked, and the document built has as paragraphs the
\* segments of redacted_text between "\n\n" that are not blank, in order,
\* under the name {stem}_redacted.docx.
C26_DocxIsReconstructed ==
    (file_type = <<"d", "o", "c", "x">> /\ dpc # "start")
        => /\ doc = <<>> /\ page_idx = 0 /\ committed = <<>>
           /\ dpc \in {"dispatch", "except_docx", "returned"}
           /\ (dpc = "returned" /\ doc_raised = <<>>) =>
                /\ doc_result.content = DocxBytes(ExpectedParagraphs(doc_call.redacted_text))
                /\ doc_result.filename = Stem(doc_call.filename) \o <<"_", "r", "e", "d", "a", "c", "t", "e", "d", ".", "d", "o", "c", "x">>

\* a.docx was redacted with two entities: the text "x", a blank segment and
\* "y" became a document of the paragraphs "x" and "y" named a_redacted.docx.
C26_Witness ==
    /\ dpc = "returned"
    /\ doc_call.filename = <<"a", ".", "d", "o", "c", "x">>
    /\ Len(EntitiesOf(doc_call)) = 2
    /\ doc_call.redacted_text = <<"x", "\n", "\n", " ", "\n", "\n", "y">>
    /\ doc_result.content = DocxBytes(<< <<"x">>, <<"y">> >>)
    /\ doc_result.filename = <<"a", "_", "r", "e", "d", "a", "c", "t", "e", "d", ".", "d", "o", "c", "x">>

\* ---------------------------------------------------- C27: no retries
\* C27: redact_batch invokes the collaborator exactly once for every text
\* it has handled, on the texts on which the invocation raised too:
\* extract_pii and not deidentify on the manual path, deidentify and not
\* extract_pii on the delegated path.
C27_OneInvocationPerText ==
    /\ Len(item_calls) = Len(item_raised)
    /\ Len(item_calls) <= Len(batch.texts)
    /\ bpc = "returned" => Len(item_calls) = Len(batch.texts)
    /\ \A i \in 1..Len(item_calls) :
        /\ item_calls[i].extract_pii + item_calls[i].deidentify = 1
        /\ item_calls[i].extract_pii
             = (IF batch.config.method # "replace" THEN 1 ELSE 0)

\* A batch of two texts under method "replace" has returned; deidentify
\* raised on the first text and was invoked once for each.
C27_Witness ==
    /\ bpc = "returned"
    /\ batch.config.method = "replace"
    /\ item_raised = <<TRUE, FALSE>>
    /\ item_calls = <<[extract_pii |-> 0, deidentify |-> 1], [extract_pii |-> 0, deidentify |-> 1]>>

\* C27, for one redact_text call: the call invokes one collaborator, once,
\* whether the invocation returns or raises.
C27_OneInvocationPerCall ==
    request.status = "called" =>
        /\ extract_calls + deidentify_calls = 1
        /\ path = "manual" => extract_calls = 1
        /\ path = "delegated" => deidentify_calls = 1

\* ------------------------------------------- C28: the batch loop's counters
\* The results so far stay as they are; at most one is appended.
ResultsOnlyGrow ==
    /\ Len(results') \in {Len(results), Len(results) + 1}
    /\ SubSeq(results', 1, Len(results)) = results

\* A failing item: failed goes up by one, the fallback result is appended,
\* total_entities stays.
FailureStep ==
    failed' # failed =>
        /\ failed' = failed + 1
        /\ Len(results') = Len(results) + 1
        /\ results'[Len(results')].entity_count = 0
        /\ total_entities' = total_entities

\* C28: the items are handled in the order of texts; at every point of the
\* loop len(results) is the number of items finished, successes plus
\* failures, failed is the number of failures and total_entities the sum of
\* entity_count over the results so far; a failing item changes failed and
\* results only; no item changes the result of an earlier one.
C28_LoopCounters ==
    /\ [](/\ Len(results) <= Len(batch.texts)
          /\ \A i \in 1..Len(results) : results[i].original_text = batch.texts[i]
          /\ Len(results) = Cardinality({ i \in 1..Len(results) : ~item_raised[i] })
                              + Cardinality({ i \in 1..Len(results) : item_raised[i] })
          /\ failed = Cardinality({ i \in 1..Len(results) : item_raised[i] })
          /\ failed <= Len(results)
          /\ total_entities = SumEntityCount(results))
    /\ [][ResultsOnlyGrow /\ FailureStep]_vars

\* After a first item with entities, the second item has failed: two
\* results, one failure, and total_entities as after the first item.
C28_Witness ==
    /\ bpc = "loop"
    /\ Len(results) = 2
    /\ item_raised = <<FALSE, TRUE>>
    /\ failed = 1
    /\ results[1].entity_count >= 1
    /\ total_entities = results[1].entity_count

C30_FallbackHasNoMapping ==
    \A i \in 1..Len(results) : item_raised[i] => results[i].mapping = NoMapping

\* ================================================== the active model
\* The keys of MODEL_INFO.
MODEL_INFO ==
    { "openmed/OpenMed-PII-ClinicalE5-Small-33M-v1",
      "openmed/OpenMed-PII-SuperClinical-Small-44M-v1",
      "openmed/OpenMed-PII-LiteClinical-Small-66M-v1",
      "openmed/OpenMed-PII-FastClinical-Small-82M-v1",
      "openmed/OpenMed-PII-ClinicalE5-Base-109M-v1",
      "openmed/OpenMed-PII-BioClinicalModern-Base-149M-v1",
      "openmed/OpenMed-PII-SuperClinical-Base-184M-v1",
      "openmed/OpenMed-PII-SuperClinical-Large-434M-v1",
      "openmed/OpenMed-PII-QwenMed-XLarge-600M-v1" }

\* The model ids a request may carry: the known ones, one that MODEL_INFO
\* does not have, and the empty string.
RequestedModelIds == MODEL_INFO \cup {"acme/other-model", ""}

\* The model a request names: none, or an id.
NoModel == [given |-> FALSE, value |-> ""]

SomeModel(id) == [given |-> TRUE, value |-> id]

NamedModels == {NoModel} \cup { SomeModel(id) : id \in RequestedModelIds }

\* REDACTX_DEFAULT_MODEL: unset, or set to another model.
DefaultModels == {SchemaDefaultModel, "openmed/OpenMed-PII-SuperClinical-Large-434M-v1"}

\* RedactionConfig.model of a request body: the field, or its default.
ConfigModelOfBody(named) == IF named.given THEN named.value ELSE SchemaDefaultModel

\* `model=model or settings.default_model` on the form field of the
\* document endpoints.
ConfigModelOfForm(named) ==
    IF named.given /\ named.value # "" THEN named.value ELSE default_model

\* `model_name = config.model or self.active_model_name`
ModelName(config_model) == IF config_model # "" THEN config_model ELSE active_model_name

\* Settings() and RedactionService.__init__
InitModel ==
    /\ ManualIdle
    /\ TextIdle
    /\ BatchIdle
    /\ FilterIdle
    /\ DocIdle
    /\ default_model \in DefaultModels
    /\ active_model_name = default_model
    /\ model_request = [kind |-> "none"]
    /\ model_reply = [status |-> "none"]
    /\ accepted_model = default_model

\* POST /config/model with a key of MODEL_INFO: service.set_active_model.
SetActiveModel ==
    \E model_id \in RequestedModelIds :
        /\ model_id \in MODEL_INFO
        /\ active_model_name' = model_id
        /\ model_request' = [kind |-> "set", model |-> SomeModel(model_id)]
        /\ model_reply' = [status |-> "updated", model_name |-> model_id]
        /\ accepted_model' = model_id
    /\ UNCHANGED <<default_model, manualVars, textVars, batchVars, filterVars, docVars>>

\* POST /config/model with another id: HTTPException 400.
SetActiveModelUnknown ==
    \E model_id \in RequestedModelIds :
        /\ model_id \notin MODEL_INFO
        /\ model_request' = [kind |-> "set", model |-> SomeModel(model_id)]
        /\ model_reply' = [status |-> "rejected", model_name |-> ""]
    /\ UNCHANGED <<default_model, active_model_name, accepted_model>>
    /\ UNCHANGED <<manualVars, textVars, batchVars, filterVars, docVars>>

\* POST /redact/text, /redact/batch and /preview: redact_text with the
\* config of the body.
RedactEndpoint ==
    \E named \in NamedModels :
        /\ model_request' = [kind |-> "redact", model |-> named]
        /\ model_reply' = [status |-> "ran", model_name |-> ModelName(ConfigModelOfBody(named))]
    /\ UNCHANGED <<default_model, active_model_name, accepted_model>>
    /\ UNCHANGED <<manualVars, textVars, batchVars, filterVars, docVars>>

\* POST /extract: extract_entities with the config of the body.
ExtractEndpoint ==
    \E named \in NamedModels :
        /\ model_request' = [kind |-> "extract", model |-> named]
        /\ model_reply' = [status |-> "ran", model_name |-> ModelName(ConfigModelOfBody(named))]
    /\ UNCHANGED <<default_model, active_model_name, accepted_model>>
    /\ UNCHANGED <<manualVars, textVars, batchVars, filterVars, docVars>>

\* POST /documents/redact: redact_text with the config built of the form.
RedactDocumentEndpoint ==
    \E named \in NamedModels :
        /\ model_request' = [kind |-> "redact_document", model |-> named]
        /\ model_reply' = [status |-> "ran", model_name |-> ModelName(ConfigModelOfForm(named))]
    /\ UNCHANGED <<default_model, active_model_name, accepted_model>>
    /\ UNCHANGED <<manualVars, textVars, batchVars, filterVars, docVars>>

\* POST /documents/analyze: extract_entities with the config built of the
\* form.
AnalyzeDocumentEndpoint ==
    \E named \in NamedModels :
        /\ model_request' = [kind |-> "analyze_document", model |-> named]
        /\ model_reply' = [status |-> "ran", model_name |-> ModelName(ConfigModelOfForm(named))]
    /\ UNCHANGED <<default_model, active_model_name, accepted_model>>
    /\ UNCHANGED <<manualVars, textVars, batchVars, filterVars, docVars>>

NextModel ==
    \/ SetActiveModel
    \/ SetActiveModelUnknown
    \/ RedactEndpoint
    \/ ExtractEndpoint
    \/ RedactDocumentEndpoint
    \/ AnalyzeDocumentEndpoint

SpecModel == InitModel /\ [][NextModel]_vars

\* ------------------------------------------------- C29: the active model
\* The last request asked for a redaction or an extraction.
RunsAModel ==
    model_request.kind \in {"redact", "extract", "redact_document", "analyze_document"}

\* C29: a redaction or extraction request that names no model runs with the
\* model of the last set-active-model request that was accepted, or with the
\* configured default when there was none; a set-active-model request with
\* an unknown id is rejected and the active model stays.
C29_UnnamedRunsWithActiveModel ==
    /\ (RunsAModel /\ ~model_request.model.given) => model_reply.model_name = accepted_model
    /\ active_model_name = accepted_model
    /\ (model_request.kind = "set" /\ model_request.model.value \notin MODEL_INFO)
            => model_reply.status = "rejected"

\* C29, the part on set-active-model: the active model is the model of the
\* last accepted request or the configured default, a request is accepted
\* exactly when its id is a key of MODEL_INFO, and a rejected one leaves the
\* active model as it was.
C29_ActiveModelIsLastAccepted ==
    /\ [](/\ active_model_name = accepted_model
          /\ model_request.kind = "set" =>
                (model_reply.status = "updated" <=> model_request.model.value \in MODEL_INFO)
          /\ (model_request.kind = "set" /\ model_reply.status = "updated")
                => active_model_name = model_request.model.value)
    /\ [][(model_request'.kind = "set" /\ model_reply'.status = "rejected")
            => active_model_name' = active_model_name]_vars

\* C29, what a request naming no model runs with: the default of
\* RedactionConfig.model on the body endpoints, Settings.default_model on
\* the document endpoints, whatever the active model is.
C29_UnnamedRunsWithDefault ==
    (RunsAModel /\ ~model_request.model.given)
        => model_reply.model_name
             = (IF model_request.kind \in {"redact", "extract"}
                THEN SchemaDefaultModel ELSE default_model)

====
